---------------------------- MODULE Spec2Model ----------------------------
(***************************************************************************)
(* A model of the repricing engine and the alert rule of tcgapp:           *)
(*   app/services/repricing.py  calculate_price, parse_csv, generate_csv   *)
(*   app/routers/reprice.py     reprice_upload, reprice_download           *)
(*   app/services/alerts.py     evaluate_alert, check_alerts               *)
(*   app/services/ingestion.py  ingest_card, ingest_batch                  *)
(*   app/routers/watchlist.py   add, remove, configure_alert               *)
(*   app/routers/alerts.py      acknowledge_alert                          *)
(*                                                                         *)
(* Python values are tagged records.  None is [t |-> "none"], a str is     *)
(* [t |-> "str", v |-> <<characters>>] and a decimal.Decimal is            *)
(* [t |-> "dec", s |-> sign, c |-> coefficient, e |-> exponent], which is  *)
(* the (sign, digits, exponent) triple Python keeps: its value is          *)
(* (-1)^s * c * 10^e.  12.5 and 12.50 are different triples with equal     *)
(* value, exactly as in Python.  Sums, differences and products are exact: *)
(* the context precision of 28 digits is never reached within the bounds   *)
(* used here.  The one quotient that need not be exact, the percentage     *)
(* change of evaluate_alert, is kept as a fraction (see PctChange).        *)
(***************************************************************************)
EXTENDS Integers, Sequences, FiniteSets, TLC

VARIABLES
    price_call,     \* the arguments of the calculate_price call
    price_result,   \* what that call produced: a return value or a raise
    csv_text,    \* the CSV text at hand (the uploaded export)
    parsed,         \* the outcome of parse_csv(csv_text)
    emitted,        \* the text generate_csv made of the parsed rows
    reparsed,       \* the outcome of parse_csv(emitted)
    download,       \* the outcome of a /reprice/download request
    upload,         \* the outcome of a /reprice/upload request
    alert_call,     \* the arguments of the evaluate_alert call
    alert_result,   \* what that call produced
    db,             \* the committed tables of the database
    today,          \* date.today(), counted in days
    batch,          \* the last ingest_batch call and what it returned
    checked         \* the alert ids check_alerts returned last, and before

price_vars == <<price_call, price_result>>

csv_vars == <<csv_text, parsed, emitted, reparsed, download, upload>>

alert_vars == <<alert_call, alert_result>>

store_vars == <<db, today, batch, checked>>

vars == <<price_vars, csv_vars, alert_vars, store_vars>>

-----------------------------------------------------------------------------
(* Python values *)

None == [t |-> "none"]

Str(chars) == [t |-> "str", v |-> chars]

Dec(sign, coef, exp) == [t |-> "dec", s |-> sign, c |-> coef, e |-> exp]

IsNone(v) == v.t = "none"

IsDec(v) == v.t = "dec"

Min(a, b) == IF a <= b THEN a ELSE b

Abs(n) == IF n < 0 THEN -n ELSE n

\* The coefficient of Decimal a written at exponent m (m <= a.e), signed.
Scaled(a, m) == (IF a.s = 1 THEN -a.c ELSE a.c) * 10^(a.e - m)

\* Decimal.__lt__ and Decimal.__eq__ on finite values: a comparison of values.
DecLt(a, b) == Scaled(a, Min(a.e, b.e)) < Scaled(b, Min(a.e, b.e))

DecEq(a, b) == Scaled(a, Min(a.e, b.e)) = Scaled(b, Min(a.e, b.e))

\* bool(Decimal): zero is falsy.
DecTruthy(a) == a.c # 0

\* Decimal.__sub__: exact; a zero difference is +0 unless both operands are
\* zeros, where the sign is min(a.sign, (-b).sign).
DecSub(a, b) ==
    LET m == Min(a.e, b.e)
        r == Scaled(a, m) - Scaled(b, m)
    IN  IF a.c = 0 /\ b.c = 0
        THEN Dec(Min(a.s, 1 - b.s), 0, m)
        ELSE Dec(IF r < 0 THEN 1 ELSE 0, Abs(r), m)

\* Decimal.__mul__: exact.
DecMul(a, b) == Dec((a.s + b.s) % 2, a.c * b.c, a.e + b.e)

\* Decimal.__truediv__ by Decimal("100"): the quotient is exact and keeps the
\* largest exponent not above the ideal one (a.e) at which it is an integer.
DecDiv100(a) ==
    IF a.c % 100 = 0 THEN Dec(a.s, a.c \div 100, a.e)
    ELSE IF a.c % 10 = 0 THEN Dec(a.s, a.c \div 10, a.e - 1)
    ELSE Dec(a.s, a.c, a.e - 2)

-----------------------------------------------------------------------------
(* Text.  A str is a sequence of one-character strings, so that            *)
(* Decimal(str) and str(Decimal) are computed digit by digit.              *)

Raise(name) == [t |-> "raise", error |-> name]

DigitChars == <<"0", "1", "2", "3", "4", "5", "6", "7", "8", "9">>

IsDigit(ch) == \E i \in 1..10 : DigitChars[i] = ch

DigitValue(ch) == (CHOOSE i \in 1..10 : DigitChars[i] = ch) - 1

AllDigits(s) == \A i \in 1..Len(s) : IsDigit(s[i])

RECURSIVE DigitsToNat(_)
DigitsToNat(s) ==
    IF s = <<>> THEN 0
    ELSE 10 * DigitsToNat(SubSeq(s, 1, Len(s) - 1)) + DigitValue(s[Len(s)])

RECURSIVE NatToDigits(_)
NatToDigits(n) ==
    IF n < 10 THEN <<DigitChars[n + 1]>>
    ELSE NatToDigits(n \div 10) \o <<DigitChars[(n % 10) + 1]>>

RECURSIVE Zeros(_)
Zeros(n) == IF n <= 0 THEN <<>> ELSE <<"0">> \o Zeros(n - 1)

Whitespace == {" ", "\t"}

RECURSIVE LStrip(_)
LStrip(s) == IF s # <<>> /\ s[1] \in Whitespace THEN LStrip(Tail(s)) ELSE s

RECURSIVE RStrip(_)
RStrip(s) ==
    IF s # <<>> /\ s[Len(s)] \in Whitespace
    THEN RStrip(SubSeq(s, 1, Len(s) - 1)) ELSE s

\* str.strip()
Strip(s) == RStrip(LStrip(s))

\* str.replace("_", "")
RECURSIVE DropUnderscores(_)
DropUnderscores(s) ==
    IF s = <<>> THEN <<>>
    ELSE (IF s[1] = "_" THEN <<>> ELSE <<s[1]>>) \o DropUnderscores(Tail(s))

\* The first position of s holding a character of chs, or 0.
FirstIndex(s, chs) ==
    IF \E i \in 1..Len(s) : s[i] \in chs
    THEN CHOOSE i \in 1..Len(s) :
             s[i] \in chs /\ \A j \in 1..(i - 1) : s[j] \notin chs
    ELSE 0

SignValue(s) == IF s # <<>> /\ s[1] = "-" THEN 1 ELSE 0

Unsigned(s) == IF s # <<>> /\ s[1] \in {"-", "+"} THEN Tail(s) ELSE s

\* Decimal(str): strip, drop underscores, then
\*   [sign] digits [. digits] [E [sign] digits]   with a digit in the mantissa;
\* the coefficient is the digits of both parts and the exponent is the
\* written exponent minus the number of fractional digits.  Any other text
\* raises decimal.InvalidOperation.  (The spellings Inf and NaN, which
\* Decimal also accepts, occur in no text of this model.)
DecimalFromString(text) ==
    LET str == DropUnderscores(Strip(text))
        body == Unsigned(str)
        ePos == FirstIndex(body, {"E", "e"})
        mant == IF ePos = 0 THEN body ELSE SubSeq(body, 1, ePos - 1)
        expo == IF ePos = 0 THEN <<>> ELSE SubSeq(body, ePos + 1, Len(body))
        dot == FirstIndex(mant, {"."})
        int == IF dot = 0 THEN mant ELSE SubSeq(mant, 1, dot - 1)
        frac == IF dot = 0 THEN <<>> ELSE SubSeq(mant, dot + 1, Len(mant))
        expDigits == Unsigned(expo)
        ok == /\ AllDigits(int)
              /\ AllDigits(frac)
              /\ Len(int) + Len(frac) >= 1
              /\ ePos # 0 => (expDigits # <<>> /\ AllDigits(expDigits))
        expVal == IF ePos = 0 THEN 0
                  ELSE (IF SignValue(expo) = 1 THEN -1 ELSE 1)
                           * DigitsToNat(expDigits)
    IN  IF ok
        THEN Dec(SignValue(str), DigitsToNat(int \o frac), expVal - Len(frac))
        ELSE Raise("InvalidOperation")

\* str(Decimal), Decimal.__str__: plain notation when the exponent is at most
\* 0 and more than -6 digits lie left of the point, else scientific notation
\* with one digit before the point.
DecimalStr(a) ==
    LET digits == NatToDigits(a.c)
        n == Len(digits)
        leftdigits == a.e + n
        dotplace == IF a.e <= 0 /\ leftdigits > -6 THEN leftdigits ELSE 1
        intpart == IF dotplace <= 0 THEN <<"0">>
                   ELSE IF dotplace >= n THEN digits \o Zeros(dotplace - n)
                   ELSE SubSeq(digits, 1, dotplace)
        fracpart == IF dotplace <= 0 THEN <<".">> \o Zeros(-dotplace) \o digits
                    ELSE IF dotplace >= n THEN <<>>
                    ELSE <<".">> \o SubSeq(digits, dotplace + 1, n)
        x == leftdigits - dotplace
        exp == IF x = 0 THEN <<>>
               ELSE <<"E", IF x < 0 THEN "-" ELSE "+">> \o NatToDigits(Abs(x))
    IN  (IF a.s = 1 THEN <<"-">> ELSE <<>>) \o intpart \o fracpart \o exp

-----------------------------------------------------------------------------
(* repricing.py: constants *)

MATCH_LOW == "match_low"

UNDERCUT == "undercut"

MATCH_MARKET == "match_market"

RepricingStrategy == {MATCH_LOW, UNDERCUT, MATCH_MARKET}

ABSOLUTE_MINIMUM == Dec(0, 1, -2)

TWO_PLACES == Dec(0, 1, -2)

\* The same rescaling with decimal's default rounding, ROUND_HALF_EVEN: what
\* quantize does when the rounding argument is left out.
QuantizeHalfEven(a, q) ==
    IF a.e >= q.e
    THEN Dec(a.s, a.c * 10^(a.e - q.e), q.e)
    ELSE LET d == 10^(q.e - a.e)
             quo == a.c \div d
             rem == a.c % d
         IN  Dec(a.s, IF 2 * rem > d \/ (2 * rem = d /\ quo % 2 = 1)
                      THEN quo + 1 ELSE quo, q.e)

\* Decimal.quantize(q, rounding=ROUND_HALF_UP): rescale to q's exponent;
\* a dropped half or more rounds the magnitude up, and the sign is kept.
QuantizeHalfUp(a, q) ==
    IF a.e >= q.e
    THEN Dec(a.s, a.c * 10^(a.e - q.e), q.e)
    ELSE LET d == 10^(q.e - a.e)
             quo == a.c \div d
             rem == a.c % d
         IN  Dec(a.s, IF 2 * rem >= d THEN quo + 1 ELSE quo, q.e)

-----------------------------------------------------------------------------
(* repricing.py: RepricingService.calculate_price *)

\* The UNDERCUT candidate with the dropped digits cut off (ROUND_DOWN)
\* instead of rounded half-up.
UndercutPriceRoundDown(tcg_low, undercut_pct) ==
    LET pct == IF IsNone(undercut_pct) \/ ~DecTruthy(undercut_pct)
               THEN Dec(0, 0, 0) ELSE undercut_pct
        product == DecMul(tcg_low, DecSub(Dec(0, 1, 0), DecDiv100(pct)))
    IN  IF product.e >= TWO_PLACES.e
        THEN Dec(product.s, product.c * 10^(product.e - TWO_PLACES.e), TWO_PLACES.e)
        ELSE Dec(product.s, product.c \div 10^(TWO_PLACES.e - product.e), TWO_PLACES.e)

\* lines 78-80: the UNDERCUT candidate.
UndercutPrice(tcg_low, undercut_pct) ==
    LET pct == IF IsNone(undercut_pct) \/ ~DecTruthy(undercut_pct)
               THEN Dec(0, 0, 0) ELSE undercut_pct
        multiplier == DecSub(Dec(0, 1, 0), DecDiv100(pct))
    IN  QuantizeHalfUp(DecMul(tcg_low, multiplier), TWO_PLACES)

\* The strategies with MATCH_LOW reading the market price.
StrategyPriceLowFromMarket(current_price, tcg_low, market_price, strategy, undercut_pct) ==
    IF strategy = MATCH_LOW THEN market_price
    ELSE IF strategy = UNDERCUT THEN UndercutPrice(tcg_low, undercut_pct)
    ELSE IF strategy = MATCH_MARKET THEN market_price
    ELSE current_price

\* lines 75-84: the candidate by strategy; any other strategy value takes
\* the else branch.
StrategyPrice(current_price, tcg_low, market_price, strategy, undercut_pct) ==
    IF strategy = MATCH_LOW THEN tcg_low
    ELSE IF strategy = UNDERCUT THEN UndercutPrice(tcg_low, undercut_pct)
    ELSE IF strategy = MATCH_MARKET THEN market_price
    ELSE current_price

\* The floor clamp left out.
EnforceFloorSkipped(new_price, floor_price) == new_price

\* lines 86-88.
EnforceFloor(new_price, floor_price) ==
    IF ~IsNone(floor_price) /\ DecLt(new_price, floor_price)
    THEN floor_price ELSE new_price

\* The minimum clamp with the comparison turned around.
EnforceMinimumReversed(new_price) ==
    IF DecLt(ABSOLUTE_MINIMUM, new_price) THEN ABSOLUTE_MINIMUM ELSE new_price

\* lines 90-92.
EnforceMinimum(new_price) ==
    IF DecLt(new_price, ABSOLUTE_MINIMUM) THEN ABSOLUTE_MINIMUM ELSE new_price

\* The final rounding left out.
FinalRoundSkipped(new_price) == new_price

\* line 94.
FinalRound(new_price) == QuantizeHalfUp(new_price, TWO_PLACES)

\* The final rounding taken before the two clamps instead of after them.
calculate_price_rounded_first(current_price, tcg_low, market_price, strategy, undercut_pct, floor_price) ==
    [t |-> "return",
     value |-> EnforceMinimum(EnforceFloor(FinalRound(
                   StrategyPrice(current_price, tcg_low, market_price,
                                 strategy, undercut_pct)),
                   floor_price))]

\* The outcome of a call: every path of the function ends in the return of
\* line 94; no path raises.
calculate_price(current_price, tcg_low, market_price, strategy, undercut_pct, floor_price) ==
    [t |-> "return",
     value |-> FinalRound(EnforceMinimum(EnforceFloor(
                   StrategyPrice(current_price, tcg_low, market_price,
                                 strategy, undercut_pct),
                   floor_price)))]

-----------------------------------------------------------------------------
(* repricing.py: the column table *)

\* The dict CSV_COLUMN_MAP in its insertion order: <<CSV column, field name>>.
CSV_COLUMN_MAP == <<
    <<"TCGplayer Id", "sku_id">>,
    <<"Product Line", "product_line">>,
    <<"Set Name", "set_name">>,
    <<"Product Name", "product_name">>,
    <<"Title", "title">>,
    <<"Number", "number">>,
    <<"Rarity", "rarity">>,
    <<"Condition", "condition">>,
    <<"TCG Market Price", "market_price">>,
    <<"TCG Direct Low", "direct_low">>,
    <<"TCG Low Price With Shipping", "tcg_low_with_shipping">>,
    <<"TCG Low Price", "tcg_low">>,
    <<"Total Quantity", "total_quantity">>,
    <<"Add to Quantity", "add_to_quantity">>,
    <<"TCG Marketplace Price", "current_listed_price">>,
    <<"Photo URL", "photo_url">> >>

PRICE_FIELDS == {"market_price", "direct_low", "tcg_low_with_shipping",
                 "tcg_low", "current_listed_price"}

\* list(CSV_COLUMN_MAP.keys())
Headers == [i \in 1..Len(CSV_COLUMN_MAP) |-> CSV_COLUMN_MAP[i][1]]

FieldNames == {CSV_COLUMN_MAP[i][2] : i \in 1..Len(CSV_COLUMN_MAP)}

-----------------------------------------------------------------------------
(* CSV text, at the level of cells.  A text is its header row (column      *)
(* names) and its data lines, each the sequence of cells csv.reader        *)
(* yields for it; a blank line is the empty sequence.                      *)

CsvText(header, lines) == [header |-> header, lines |-> lines]

\* csv.DictReader, one row: the header names the cells; a name past the end
\* of a short line gets restval, which is None; cells past the header go
\* under restkey and are not named by any column.
DictRow(header, line) ==
    [name \in {header[i] : i \in 1..Len(header)} |->
        LET i == CHOOSE k \in 1..Len(header) :
                     header[k] = name /\ \A j \in (k + 1)..Len(header) : header[j] # name
        IN  IF i <= Len(line) THEN Str(line[i]) ELSE None]

\* csv.DictReader: blank lines are skipped.
DictReader(text) ==
    LET kept == SelectSeq(text.lines, LAMBDA line : line # <<>>)
    IN  [i \in 1..Len(kept) |-> DictRow(text.header, kept[i])]

\* dict.get(key, default)
DictGet(d, key, default) == IF key \in DOMAIN d THEN d[key] ELSE default

\* _to_decimal with non-numeric text taken as an absent value.
to_decimal_lenient(value) ==
    IF IsNone(value) \/ value.v = <<>> \/ Strip(value.v) = <<>>
    THEN None
    ELSE LET d == DecimalFromString(Strip(value.v))
         IN  IF d.t = "raise" THEN None ELSE d

\* _to_decimal with an empty cell taken as zero.
to_decimal_zero(value) ==
    IF IsNone(value) \/ value.v = <<>> \/ Strip(value.v) = <<>>
    THEN Dec(0, 0, 0)
    ELSE DecimalFromString(Strip(value.v))

\* lines 45-49.  `not value` holds of None and of the empty str.
_to_decimal(value) ==
    IF IsNone(value) \/ value.v = <<>> \/ Strip(value.v) = <<>>
    THEN None
    ELSE DecimalFromString(Strip(value.v))

\* lines 112-118: the mapped row of one raw row; a field is a raise record
\* where _to_decimal raised.
MappedRow(raw_row) ==
    [field_name \in FieldNames |->
        LET i == CHOOSE k \in 1..Len(CSV_COLUMN_MAP) : CSV_COLUMN_MAP[k][2] = field_name
            raw_value == DictGet(raw_row, CSV_COLUMN_MAP[i][1], Str(<<>>))
        IN  IF field_name \in PRICE_FIELDS THEN _to_decimal(raw_value)
            ELSE raw_value]

RowRaises(mapped_row) == \E f \in DOMAIN mapped_row : mapped_row[f].t = "raise"

\* lines 96-121.  The exception of the first failing row leaves the function:
\* the local list of rows is dropped with the frame and nothing is returned.
parse_csv(csv_content) ==
    LET reader == DictReader(csv_content)
        mapped == [i \in 1..Len(reader) |-> MappedRow(reader[i])]
    IN  IF \E i \in 1..Len(mapped) : RowRaises(mapped[i])
        THEN Raise("InvalidOperation")
        ELSE [t |-> "return", value |-> mapped]

\* The output line without the test for None: str(None) is written.
CsvRowNoneAsText(row) ==
    [i \in 1..Len(CSV_COLUMN_MAP) |->
        LET value == DictGet(row, CSV_COLUMN_MAP[i][2], Str(<<>>))
        IN  IF IsNone(value) THEN <<"N", "o", "n", "e">>
            ELSE IF IsDec(value) THEN DecimalStr(value)
            ELSE value.v]

\* generate_csv with the rows written last first.
generate_csv_reversed(rows) ==
    CsvText([i \in 1..Len(CSV_COLUMN_MAP) |-> CSV_COLUMN_MAP[i][1]],
            [i \in 1..Len(rows) |->
                LET row == rows[Len(rows) + 1 - i]
                IN  [k \in 1..Len(CSV_COLUMN_MAP) |->
                        LET value == DictGet(row, CSV_COLUMN_MAP[k][2], Str(<<>>))
                        IN  IF IsNone(value) THEN <<>>
                            ELSE IF IsDec(value) THEN DecimalStr(value)
                            ELSE value.v]])

\* lines 145-152: one output line, in the order of field_to_csv, which is the
\* order of CSV_COLUMN_MAP; csv.DictWriter writes the cells in header order.
CsvRow(row) ==
    [i \in 1..Len(CSV_COLUMN_MAP) |->
        LET value == DictGet(row, CSV_COLUMN_MAP[i][2], Str(<<>>))
        IN  IF IsNone(value) THEN <<>>
            ELSE IF IsDec(value) THEN DecimalStr(value)
            ELSE value.v]

\* lines 123-155.
generate_csv(rows) ==
    CsvText(Headers, [i \in 1..Len(rows) |-> CsvRow(rows[i])])

-----------------------------------------------------------------------------
(* routers/reprice.py: reprice_download *)

\* RepricingStrategy[name]: the lookup by member name; any other name is a
\* KeyError.
StrategyNames == {"MATCH_LOW", "UNDERCUT", "MATCH_MARKET"}

StrategyByName(name) ==
    IF name = "MATCH_LOW" THEN MATCH_LOW
    ELSE IF name = "UNDERCUT" THEN UNDERCUT
    ELSE MATCH_MARKET

\* `x or Decimal("0")`: None and a zero Decimal are falsy.
OrZero(x) == IF IsNone(x) \/ ~DecTruthy(x) THEN Dec(0, 0, 0) ELSE x

\* lines 96-97: `Decimal(text) if text else None`.
FormDecimal(text) == IF text = <<>> THEN None ELSE DecimalFromString(text)

\* lines 100-114: the new price of one row.
RowNewPrice(row, strat, undercut, floor) ==
    LET tcg_low == OrZero(DictGet(row, "tcg_low", None))
        market == OrZero(DictGet(row, "market_price", None))
        current == OrZero(DictGet(row, "current_listed_price", None))
    IN  IF DecTruthy(tcg_low) \/ DecTruthy(market)
        THEN calculate_price(current, tcg_low, market, strat, undercut, floor).value
        ELSE current

\* line 105 / 114: row["new_price"] = ...
WithNewPrice(row, new_price) ==
    [f \in (DOMAIN row) \cup {"new_price"} |->
        IF f = "new_price" THEN new_price ELSE row[f]]

\* lines 84-123.  The response body is the text generate_csv returns; rows
\* is the handler's list after the loop.
reprice_download(original_csv, strategy, undercut_pct, floor_price) ==
    LET parsed_rows == parse_csv(original_csv)
        undercut == FormDecimal(undercut_pct)
        floor == FormDecimal(floor_price)
    IN  IF parsed_rows.t = "raise" THEN parsed_rows
        ELSE IF strategy \notin StrategyNames THEN Raise("KeyError")
        ELSE IF undercut.t = "raise" THEN undercut
        ELSE IF floor.t = "raise" THEN floor
        ELSE LET rows == [i \in 1..Len(parsed_rows.value) |->
                             WithNewPrice(parsed_rows.value[i],
                                 RowNewPrice(parsed_rows.value[i],
                                     StrategyByName(strategy), undercut, floor))]
             IN  [t |-> "return", rows |-> rows, body |-> generate_csv(rows)]

-----------------------------------------------------------------------------
(* routers/reprice.py: reprice_upload *)

\* lines 49-70: the entry of results for one row.  tcg_low, market and
\* current are the row's values with None and zero replaced by Decimal("0");
\* diff tests the truth of current, which a zero fails like None.
RowResult(row, strat, undercut, floor) ==
    LET tcg_low == OrZero(DictGet(row, "tcg_low", None))
        market == OrZero(DictGet(row, "market_price", None))
        current == OrZero(DictGet(row, "current_listed_price", None))
        new_price == IF DecTruthy(tcg_low) \/ DecTruthy(market)
                     THEN calculate_price(current, tcg_low, market, strat,
                                          undercut, floor).value
                     ELSE current
        diff == IF DecTruthy(current) THEN DecSub(new_price, current)
                ELSE Dec(0, 0, 0)
    IN  [f \in (DOMAIN row) \cup {"new_price", "diff"} |->
            IF f = "new_price" THEN new_price
            ELSE IF f = "diff" THEN diff
            ELSE row[f]]

\* lines 23-81.  results is the list handed to the reprice.html template.
\* JustTCGClient() (line 44) only stores the API key, and sku_ids (line 45)
\* is not read again.
reprice_upload(file, strategy, undercut_pct, floor_price) ==
    LET parsed_rows == parse_csv(file)
        undercut == FormDecimal(undercut_pct)
        floor == FormDecimal(floor_price)
    IN  IF parsed_rows.t = "raise" THEN parsed_rows
        ELSE IF strategy \notin StrategyNames THEN Raise("KeyError")
        ELSE IF undercut.t = "raise" THEN undercut
        ELSE IF floor.t = "raise" THEN floor
        ELSE [t |-> "return",
              results |-> [i \in 1..Len(parsed_rows.value) |->
                              RowResult(parsed_rows.value[i],
                                  StrategyByName(strategy), undercut, floor)]]

-----------------------------------------------------------------------------
(* services/alerts.py: evaluate_alert *)

\* line 21: ((new_price - old_price) / old_price) * 100, as the fraction
\* num/den with den > 0.  Decimal division by zero raises: DivisionByZero,
\* or InvalidOperation when the dividend is zero too.  Python rounds the
\* quotient to 28 significant digits; a quotient that is not exact differs
\* from every threshold of AlertThresholds by more than 1/(den * 10), far
\* above that rounding, and a quotient that equals a threshold has few
\* digits and is not rounded, so each comparison below comes out as Python's.
PctChange(old_price, new_price) ==
    LET diff == DecSub(new_price, old_price)
        m == Min(diff.e, old_price.e)
        n == Scaled(diff, m) * 100
        d == Scaled(old_price, m)
    IN  IF d = 0
        THEN Raise(IF n = 0 THEN "InvalidOperation" ELSE "DivisionByZero")
        ELSE [t |-> "ratio", num |-> IF d < 0 THEN -n ELSE n, den |-> Abs(d)]

\* ratio > a: the comparison of RatioGe made strict.
RatioGt(r, a) ==
    IF a.e >= 0 THEN r.num > Scaled(a, 0) * r.den
    ELSE r.num * 10^(-a.e) > Scaled(a, a.e) * r.den

\* ratio >= a and ratio <= a for a Decimal a, by cross-multiplication.
RatioGe(r, a) ==
    IF a.e >= 0 THEN r.num >= Scaled(a, 0) * r.den
    ELSE r.num * 10^(-a.e) >= Scaled(a, a.e) * r.den

RatioLe(r, a) ==
    IF a.e >= 0 THEN r.num <= Scaled(a, 0) * r.den
    ELSE r.num * 10^(-a.e) <= Scaled(a, a.e) * r.den

\* abs(pct_change)
RatioAbs(r) == [r EXCEPT !.num = Abs(r.num)]

\* Decimal.__neg__: the sign is turned round; the negation of a zero is +0.
DecNeg(a) == IF a.c = 0 THEN Dec(0, 0, a.e) ELSE Dec(1 - a.s, a.c, a.e)

\* The comparison by direction with "both" as a branch of its own and no
\* trigger for any other direction.
DirectionTestKnownOnly(pct_change, threshold_pct, direction) ==
    IF direction = "up" THEN RatioGe(pct_change, threshold_pct)
    ELSE IF direction = "down" THEN RatioLe(pct_change, DecNeg(threshold_pct))
    ELSE IF direction = "both" THEN RatioGe(RatioAbs(pct_change), threshold_pct)
    ELSE FALSE

\* The comparison by direction with the else branch reading the signed
\* change instead of its magnitude.
DirectionTestSigned(pct_change, threshold_pct, direction) ==
    IF direction = "up" THEN RatioGe(pct_change, threshold_pct)
    ELSE IF direction = "down" THEN RatioLe(pct_change, DecNeg(threshold_pct))
    ELSE RatioGe(pct_change, threshold_pct)

\* lines 23-28: the comparison by direction; any direction other than "up"
\* and "down" takes the else branch.
DirectionTest(pct_change, threshold_pct, direction) ==
    IF direction = "up" THEN RatioGe(pct_change, threshold_pct)
    ELSE IF direction = "down" THEN RatioLe(pct_change, DecNeg(threshold_pct))
    ELSE RatioGe(RatioAbs(pct_change), threshold_pct)

\* evaluate_alert without the test for equal prices of lines 15-16.
evaluate_alert_unequal_assumed(old_price, new_price, threshold_pct, direction) ==
    IF DecEq(old_price, Dec(0, 0, 0))
    THEN [t |-> "return", value |-> direction \in {"up", "both"}]
    ELSE [t |-> "return",
          value |-> DirectionTest(PctChange(old_price, new_price),
                                  threshold_pct, direction)]

\* evaluate_alert without the test for a zero old price of lines 18-19.
evaluate_alert_no_zero_test(old_price, new_price, threshold_pct, direction) ==
    IF DecEq(old_price, new_price) THEN [t |-> "return", value |-> FALSE]
    ELSE LET pct_change == PctChange(old_price, new_price)
         IN  IF pct_change.t = "raise" THEN pct_change
             ELSE [t |-> "return",
                   value |-> DirectionTest(pct_change, threshold_pct, direction)]

\* lines 9-28.
evaluate_alert(old_price, new_price, threshold_pct, direction) ==
    IF DecEq(old_price, new_price) THEN [t |-> "return", value |-> FALSE]
    ELSE IF DecEq(old_price, Dec(0, 0, 0))
    THEN [t |-> "return", value |-> direction \in {"up", "both"}]
    ELSE LET pct_change == PctChange(old_price, new_price)
         IN  IF pct_change.t = "raise" THEN pct_change
             ELSE [t |-> "return",
                   value |-> DirectionTest(pct_change, threshold_pct, direction)]

-----------------------------------------------------------------------------
(* models.py: the tables.  A table with a primary key the code sets is a   *)
(* set of keys (categories, products, skus: their other columns play no    *)
(* part below); the others are sequences of rows in insertion order, and   *)
(* the id of a row of watchlist and price_alerts is its position.  A       *)
(* session is the committed tables and the tables as the session sees      *)
(* them, flushed rows included.                                            *)

EmptyTables ==
    [categories |-> {}, products |-> {}, skus |-> {},
     current_prices |-> <<>>, price_history |-> <<>>,
     watchlist |-> <<>>, price_alerts |-> <<>>]

\* Session.commit() and Session.rollback()
Commit(session) == [committed |-> session.working, working |-> session.working]

Rollback(session) == [committed |-> session.committed, working |-> session.committed]

\* query.filter_by(...).first(): the position of the first row the filter
\* lets through, 0 for None.
First(rows, Filter(_)) ==
    IF \E i \in 1..Len(rows) : Filter(rows[i])
    THEN CHOOSE i \in 1..Len(rows) :
             Filter(rows[i]) /\ \A j \in 1..(i - 1) : ~Filter(rows[j])
    ELSE 0

-----------------------------------------------------------------------------
(* services/ingestion.py *)

\* GAME_CATEGORY_MAP["pokemon"]["category_id"]; the cards below are pokemon
\* cards.
PokemonCategory == 1

\* line 23: quantize without a rounding argument rounds by the context,
\* whose default is ROUND_HALF_EVEN.
QuantizeByContext(d, q) == QuantizeHalfEven(d, q)

\* lines 19-25.  value is None or the text str(value) gives; text Decimal()
\* rejects gives None.
ingestion_to_decimal(value) ==
    IF IsNone(value) THEN None
    ELSE LET d == DecimalFromString(value.v)
         IN  IF d.t = "raise" THEN None ELSE QuantizeByContext(d, TWO_PLACES)

\* int(text) for the texts of the cards below: the number a text of digits
\* denotes; any other text is refused with a ValueError.
IntRefuses(value) == value.v = <<>> \/ ~AllDigits(value.v)

PyInt(value) == DigitsToNat(value.v)

\* `not x` for None and str
Falsy(value) == IsNone(value) \/ value.v = <<>>

\* lines 74-90: parse_current_prices, one price_data per variant.
parse_current_prices(card) ==
    [i \in 1..Len(card.variants) |->
        [product_id |-> PyInt(card.tcgplayerId),
         variant |-> card.variants[i].printing,
         market_price |-> ingestion_to_decimal(card.variants[i].price),
         low_price |-> ingestion_to_decimal(card.variants[i].minPrice7d),
         mid_price |-> None,
         source |-> "justtcg"]]

\* lines 55-72: parse_skus stops at the first sku id int() refuses.
SkuRaises(card) ==
    \E i \in 1..Len(card.variants) :
        /\ ~Falsy(card.variants[i].tcgplayerSkuId)
        /\ IntRefuses(card.variants[i].tcgplayerSkuId)

parse_skus(card) ==
    {PyInt(card.variants[i].tcgplayerSkuId) :
        i \in {k \in 1..Len(card.variants) : ~Falsy(card.variants[k].tcgplayerSkuId)}}

\* upsert_current_price that always adds a row.
insert_current_price(tables, price_data) ==
    [tables EXCEPT !.current_prices = Append(@, price_data)]

\* lines 136-150.
upsert_current_price(tables, price_data) ==
    LET existing == First(tables.current_prices,
                          LAMBDA r : /\ r.product_id = price_data.product_id
                                     /\ r.variant = price_data.variant)
    IN  IF existing # 0
        THEN [tables EXCEPT !.current_prices[existing] = price_data]
        ELSE [tables EXCEPT !.current_prices = Append(@, price_data)]

\* record_price_history that always adds a row.
insert_price_history(tables, price_data, date) ==
    [tables EXCEPT !.price_history =
        Append(@, [product_id |-> price_data.product_id,
                   variant |-> price_data.variant,
                   date |-> date,
                   market_price |-> price_data.market_price,
                   low_price |-> price_data.low_price,
                   source |-> "justtcg"])]

\* lines 152-175; date is date.today().
record_price_history(tables, price_data, date) ==
    LET existing == First(tables.price_history,
                          LAMBDA r : /\ r.product_id = price_data.product_id
                                     /\ r.variant = price_data.variant
                                     /\ r.date = date)
    IN  IF existing # 0
        THEN [tables EXCEPT !.price_history[existing].market_price = price_data.market_price,
                            !.price_history[existing].low_price = price_data.low_price]
        ELSE [tables EXCEPT !.price_history =
                 Append(@, [product_id |-> price_data.product_id,
                            variant |-> price_data.variant,
                            date |-> date,
                            market_price |-> price_data.market_price,
                            low_price |-> price_data.low_price,
                            source |-> "justtcg"])]

\* lines 190-192: the loop over the price_data of a card.
RECURSIVE StorePrices(_, _, _)
StorePrices(tables, prices, date) ==
    IF prices = <<>> THEN tables
    ELSE StorePrices(record_price_history(
                         upsert_current_price(tables, Head(prices)),
                         Head(prices), date),
                     Tail(prices), date)

\* lines 177-194.  What is flushed before an exception stays in the session,
\* uncommitted; the commit of line 193 is the last statement.
ingest_card(session, card, date) ==
    IF Falsy(card.tcgplayerId)
    THEN [t |-> "return", value |-> FALSE, session |-> session]
    ELSE IF IntRefuses(card.tcgplayerId)
    THEN [t |-> "raise", error |-> "ValueError", session |-> session]
    ELSE LET product_id == PyInt(card.tcgplayerId)
             with_product ==
                 [session.working EXCEPT
                     !.categories = @ \cup {PokemonCategory},
                     !.products = @ \cup {product_id}]
         IN  IF SkuRaises(card)
             THEN [t |-> "raise", error |-> "ValueError",
                   session |-> [session EXCEPT !.working = with_product]]
             ELSE LET with_skus == [with_product EXCEPT
                                       !.skus = @ \cup parse_skus(card)]
                      stored == StorePrices(with_skus,
                                            parse_current_prices(card), date)
                  IN  [t |-> "return", value |-> TRUE,
                       session |-> Commit([session EXCEPT !.working = stored])]

\* The counting of the loop without the rollback of line 207.
CountedNoRollback(counts, one) ==
    IF one.t = "return" /\ one.value
    THEN [counts EXCEPT !.success_count = @ + 1, !.session = one.session]
    ELSE [counts EXCEPT !.error_count = @ + 1, !.session = one.session]

\* lines 202-208: what the try statement makes of one ingest_card call.
Counted(counts, one) ==
    IF one.t = "raise"
    THEN [counts EXCEPT !.error_count = @ + 1,
                        !.session = Rollback(one.session)]
    ELSE IF one.value
    THEN [counts EXCEPT !.success_count = @ + 1, !.session = one.session]
    ELSE [counts EXCEPT !.error_count = @ + 1, !.session = one.session]

\* lines 200-208: the loop over the cards.
RECURSIVE BatchLoop(_, _, _)
BatchLoop(counts, cards, date) ==
    IF cards = <<>> THEN counts
    ELSE BatchLoop(Counted(counts, ingest_card(counts.session, Head(cards), date)),
                   Tail(cards), date)

\* lines 196-210.
ingest_batch(session, cards, date) ==
    BatchLoop([success_count |-> 0, error_count |-> 0, session |-> session],
              cards, date)

-----------------------------------------------------------------------------
(* routers/watchlist.py and routers/alerts.py: each request has a session  *)
(* of its own and commits what it changed.                                 *)

\* add_to_watchlist that turns a removed item of the pair on again.
add_to_watchlist_reactivating(tables, product_id, variant) ==
    LET existing == First(tables.watchlist,
                          LAMBDA r : /\ r.product_id = product_id
                                     /\ r.variant = variant)
    IN  IF existing = 0
        THEN [tables EXCEPT !.watchlist =
                 Append(@, [product_id |-> product_id, variant |-> variant,
                            active |-> TRUE])]
        ELSE [tables EXCEPT !.watchlist[existing].active = TRUE]

\* add_to_watchlist without the query for an active item of the pair.
add_to_watchlist_unchecked(tables, product_id, variant) ==
    [tables EXCEPT !.watchlist =
        Append(@, [product_id |-> product_id, variant |-> variant,
                   active |-> TRUE])]

\* lines 48-61.
add_to_watchlist(tables, product_id, variant) ==
    LET existing == First(tables.watchlist,
                          LAMBDA r : /\ r.product_id = product_id
                                     /\ r.variant = variant
                                     /\ r.active)
    IN  IF existing = 0
        THEN [tables EXCEPT !.watchlist =
                 Append(@, [product_id |-> product_id, variant |-> variant,
                            active |-> TRUE])]
        ELSE tables

\* lines 64-73.
remove_from_watchlist(tables, item_id) ==
    IF item_id \in 1..Len(tables.watchlist)
    THEN [tables EXCEPT !.watchlist[item_id].active = FALSE]
    ELSE tables

\* lines 76-93, for an item_id the watchlist has (the foreign key of
\* models.py line 134) and a threshold_pct of at most two fractional digits,
\* which the column Numeric(5, 2) holds as it is.
configure_alert(tables, item_id, threshold_pct, direction) ==
    [tables EXCEPT !.price_alerts =
        Append(@, [watchlist_id |-> item_id,
                   threshold_pct |-> DecimalFromString(threshold_pct),
                   time_window |-> "24h",
                   direction |-> direction,
                   triggered_at |-> None,
                   acknowledged |-> FALSE])]

\* routers/alerts.py lines 48-57.
acknowledge_alert(tables, alert_id) ==
    IF alert_id \in 1..Len(tables.price_alerts)
    THEN [tables EXCEPT !.price_alerts[alert_id].acknowledged = TRUE]
    ELSE tables

-----------------------------------------------------------------------------
(* services/alerts.py: check_alerts *)

\* `not x` for a Decimal column: NULL and zero.
NoPrice(x) == IsNone(x) \/ ~DecTruthy(x)

\* The query of check_alerts without the filter on WatchlistItem.active.
UntriggeredAlerts(tables) ==
    SelectSeq([a \in 1..Len(tables.price_alerts) |-> a],
              LAMBDA a : /\ tables.price_alerts[a].watchlist_id
                               \in 1..Len(tables.watchlist)
                         /\ IsNone(tables.price_alerts[a].triggered_at))

\* The query of check_alerts without the filter on PriceAlert.triggered_at.
AlertsOfActiveItems(tables) ==
    SelectSeq([a \in 1..Len(tables.price_alerts) |-> a],
              LAMBDA a : /\ tables.price_alerts[a].watchlist_id
                               \in 1..Len(tables.watchlist)
                         /\ tables.watchlist[tables.price_alerts[a].watchlist_id].active)

\* lines 33-41: the alerts of the query, in the order of their ids.
ActiveAlerts(tables) ==
    SelectSeq([a \in 1..Len(tables.price_alerts) |-> a],
              LAMBDA a : /\ tables.price_alerts[a].watchlist_id
                               \in 1..Len(tables.watchlist)
                         /\ tables.watchlist[tables.price_alerts[a].watchlist_id].active
                         /\ IsNone(tables.price_alerts[a].triggered_at))

\* lines 48-52: the position of the current price of a pair, 0 for None.
CurrentOf(tables, product_id, variant) ==
    First(tables.current_prices,
          LAMBDA r : r.product_id = product_id /\ r.variant = variant)

\* The history rows of a pair by descending date, as positions; rows of one
\* date come in the order of their ids.
RECURSIVE ByDateDesc(_, _)
ByDateDesc(rows, left) ==
    IF left = {} THEN <<>>
    ELSE LET top == CHOOSE i \in left :
                        \A j \in left : \/ rows[j].date < rows[i].date
                                         \/ (rows[j].date = rows[i].date /\ i <= j)
         IN  <<top>> \o ByDateDesc(rows, left \ {top})

\* PriorOf that reads the latest row: the query without offset(1).
LatestOf(tables, product_id, variant) ==
    LET mine == {i \in 1..Len(tables.price_history) :
                    /\ tables.price_history[i].product_id = product_id
                    /\ tables.price_history[i].variant = variant}
        ordered == ByDateDesc(tables.price_history, mine)
    IN  IF Len(ordered) >= 1 THEN ordered[1] ELSE 0

\* lines 56-62: order_by(date.desc()).offset(1).first(), 0 for None.
PriorOf(tables, product_id, variant) ==
    LET mine == {i \in 1..Len(tables.price_history) :
                    /\ tables.price_history[i].product_id = product_id
                    /\ tables.price_history[i].variant = variant}
        ordered == ByDateDesc(tables.price_history, mine)
    IN  IF Len(ordered) >= 2 THEN ordered[2] ELSE 0

\* lines 43-71 for one alert: whether the run triggers it.  The two
\* `continue` leave out a missing row and a market price that is NULL or
\* zero, so evaluate_alert is reached with an old_price that is not 0 and
\* returns.
Evaluated(tables, a) ==
    LET item == tables.watchlist[tables.price_alerts[a].watchlist_id]
        current == CurrentOf(tables, item.product_id, item.variant)
        history == PriorOf(tables, item.product_id, item.variant)
    IN  /\ current # 0
        /\ ~NoPrice(tables.current_prices[current].market_price)
        /\ history # 0
        /\ ~NoPrice(tables.price_history[history].market_price)

Fires(tables, a) ==
    /\ Evaluated(tables, a)
    /\ LET item == tables.watchlist[tables.price_alerts[a].watchlist_id]
           current == CurrentOf(tables, item.product_id, item.variant)
           history == PriorOf(tables, item.product_id, item.variant)
       IN  evaluate_alert(tables.price_history[history].market_price,
                          tables.current_prices[current].market_price,
                          tables.price_alerts[a].threshold_pct,
                          tables.price_alerts[a].direction).value

\* lines 73-81: the entry of triggered for a fired alert.
TriggeredEntry(tables, a) ==
    LET item == tables.watchlist[tables.price_alerts[a].watchlist_id]
        current == CurrentOf(tables, item.product_id, item.variant)
        history == PriorOf(tables, item.product_id, item.variant)
    IN  [alert_id |-> a,
         product_id |-> item.product_id,
         variant |-> item.variant,
         old_price |-> tables.price_history[history].market_price,
         new_price |-> tables.current_prices[current].market_price,
         threshold_pct |-> tables.price_alerts[a].threshold_pct,
         direction |-> tables.price_alerts[a].direction]

\* lines 31-86; now is datetime.now().  The commit of line 84 stores the
\* triggered_at of every fired alert.
check_alerts(tables, now) ==
    LET fired == SelectSeq(ActiveAlerts(tables), LAMBDA a : Fires(tables, a))
        ids == {fired[k] : k \in 1..Len(fired)}
    IN  [triggered |-> [k \in 1..Len(fired) |-> TriggeredEntry(tables, fired[k])],
         tables |-> [tables EXCEPT !.price_alerts =
                        [a \in 1..Len(@) |->
                            IF a \in ids
                            THEN [@[a] EXCEPT !.triggered_at =
                                      [t |-> "datetime", day |-> now]]
                            ELSE @[a]]]]

-----------------------------------------------------------------------------
(* Inputs of calculate_price *)

MaxCoef == 6

\* 0.50, 0.75, 12.50, 14.00 and 15.00 are the prices of tests/test_repricing.py.
PriceCoefs == (0..MaxCoef) \cup {50, 75, 1250, 1400, 1500}

PriceExps == {-3, -2, -1}

TcgLowPrices == {Dec(0, c, e) : c \in PriceCoefs, e \in PriceExps}

MarketPrices == {Dec(0, 0, -2), Dec(0, 1, -2), Dec(0, 75, -2),
                 Dec(0, 1400, -2), Dec(0, 5, -3), Dec(0, 14, 0)}

CurrentPrices == {Dec(0, 1500, -2), Dec(0, 0, -2)}

\* Absent, 0, 5, 12.5, 50, 100 and 150 percent.
UndercutPcts == {None, Dec(0, 0, 0), Dec(0, 5, 0), Dec(0, 125, -1),
                 Dec(0, 50, 0), Dec(0, 100, 0), Dec(0, 150, 0)}

\* Absent, 0, -1.00, 0.005, 0.01, 1.00, 1.004 and 1.005.
FloorPrices == {None, Dec(0, 0, 0), Dec(1, 100, -2), Dec(0, 5, -3),
                Dec(0, 1, -2), Dec(0, 100, -2), Dec(0, 1004, -3),
                Dec(0, 1005, -3)}

\* A value that is no member of the enumeration (a plain string, None, ...).
OtherStrategy == "not_a_strategy"

StrategyArgs == RepricingStrategy \cup {OtherStrategy}

-----------------------------------------------------------------------------
(* Inputs of the CSV functions: files in the export dialect *)

E == <<>>

\* The passthrough cells of the row of test_parse_tcgplayer_csv (set name,
\* rarity and condition abbreviated).
ExportRow(market, direct, shipping, low, listed) ==
    <<<<"9", "8", "7", "6", "5", "4", "3">>, <<"P", "o", "k", "e", "m", "o", "n">>, <<"S", "S">>, <<"C", "h", "a", "r", "i", "z", "a", "r", "d", " ", "e", "x">>,
      E, <<"0", "0", "6">>, <<"D", "R">>, <<"N", "M">>,
      market, direct, shipping, low, <<"5">>, <<"0">>, listed, E>>

P_14_00 == <<"1", "4", ".", "0", "0">>

P_12_75 == <<"1", "2", ".", "7", "5">>

P_12_50 == <<"1", "2", ".", "5", "0">>

P_15_00 == <<"1", "5", ".", "0", "0">>

\* The data line of test_parse_tcgplayer_csv.
TestLine == ExportRow(P_14_00, E, P_12_75, P_12_50, P_15_00)

\* Cells that denote no number.
NonNumericCells == {<<"N", "/", "A">>}

InputLines ==
    { TestLine,
      \* one, no and three fractional digits
      ExportRow(<<"0", ".", "0", "0", "5">>, E, E, <<"1", "2", ".", "5">>, <<"1", "2">>),
      \* every currency cell blank
      ExportRow(E, E, E, E, E),
      \* fewer cells than the header: the last cell, and all but two, missing
      SubSeq(TestLine, 1, 15),
      SubSeq(TestLine, 1, 2),
      \* a blank line
      <<>>,
      \* a non-numeric currency cell
      ExportRow(P_14_00, E, E, <<"N", "/", "A">>, P_15_00),
      \* padded and whitespace-only cells
      ExportRow(<<" ", "1", "4", ".", "0", "0", " ">>, E, E, P_12_50, <<" ">>),
      \* more cells than the header
      TestLine \o <<<<"x">>>>,
      \* zero source prices
      ExportRow(<<"0">>, E, E, <<"0", ".", "0", "0">>, P_15_00),
      \* a price below 0.000001, which str() writes with an exponent
      ExportRow(P_14_00, <<"0", ".", "0", "0", "0", "0", "0", "0", "1">>, E, P_12_50, E),
      \* a listed price of zero
      ExportRow(P_14_00, E, E, P_12_50, <<"0", ".", "0", "0">>) }

MaxLines == 2

RECURSIVE LinesUpTo(_)
LinesUpTo(n) ==
    IF n = 0 THEN {<<>>}
    ELSE LinesUpTo(n - 1)
             \cup {Append(ls, l) : ls \in {x \in LinesUpTo(n - 1) : Len(x) = n - 1},
                                   l \in InputLines}

CsvFiles == {CsvText(Headers, ls) : ls \in LinesUpTo(MaxLines)}

\* The shapes of a row record handed to generate_csv: the fields left out
\* of it, and whether it carries the new_price and diff of a results entry.
RowShapes ==
    { [dropped |-> {}, extras |-> FALSE],
      [dropped |-> {"direct_low", "title"}, extras |-> FALSE],
      [dropped |-> PRICE_FIELDS, extras |-> TRUE] }

Reshaped(row, shape) ==
    [f \in ((DOMAIN row) \ shape.dropped)
              \cup (IF shape.extras THEN {"new_price", "diff"} ELSE {}) |->
        IF f = "new_price" THEN Dec(0, 1250, -2)
        ELSE IF f = "diff" THEN Dec(1, 250, -2)
        ELSE row[f]]

\* The form fields of /reprice/upload and /reprice/download.
StrategyForms == StrategyNames \cup {"BOGUS"}

UndercutForms == {E, <<"5">>}

FloorForms == {E, <<"1", ".", "0", "0">>, <<"x">>}

-----------------------------------------------------------------------------
(* The calculator: the arguments are drawn at the start, the call acts *)

PriceCalls ==
    [t : {"call"}, current_price : CurrentPrices, tcg_low : TcgLowPrices,
     market_price : MarketPrices, strategy : StrategyArgs,
     undercut_pct : UndercutPcts, floor_price : FloorPrices]

InitPrice ==
    /\ price_call \in PriceCalls
    /\ price_result = None
    /\ csv_text = None
    /\ parsed = None
    /\ emitted = None
    /\ reparsed = None
    /\ download = None
    /\ upload = None
    /\ alert_call = None
    /\ alert_result = None
    /\ db = None
    /\ today = None
    /\ batch = None
    /\ checked = None

CallCalculatePrice ==
    /\ IsNone(price_result)
    /\ price_result' = calculate_price(price_call.current_price,
                            price_call.tcg_low, price_call.market_price,
                            price_call.strategy, price_call.undercut_pct,
                            price_call.floor_price)
    /\ UNCHANGED <<price_call, csv_vars, alert_vars, store_vars>>

\* A returned price goes back in as the source price of a second call:
\* as tcg_low of MATCH_LOW or as market_price of MATCH_MARKET, with no floor.
FeedBack ==
    /\ price_call.t = "call"
    /\ price_result.t = "return"
    /\ \E strategy \in {MATCH_LOW, MATCH_MARKET} :
           price_call' = [price_call EXCEPT
                            !.t = "feedback",
                            !.strategy = strategy,
                            !.tcg_low = IF strategy = MATCH_LOW
                                        THEN price_result.value ELSE @,
                            !.market_price = IF strategy = MATCH_MARKET
                                             THEN price_result.value ELSE @,
                            !.floor_price = None]
    /\ price_result' = None
    /\ UNCHANGED <<csv_vars, alert_vars, store_vars>>

NextPrice ==
    \/ CallCalculatePrice
    \/ FeedBack

SpecPrice == InitPrice /\ [][NextPrice]_vars

-----------------------------------------------------------------------------
(* The CSV functions and the download handler: the file is drawn at the    *)
(* start and each call acts once.  A request is served by a RepricingService *)
(* of its own (reprice.py line 92) and shares nothing with direct calls of *)
(* the service, so a file sees either the direct calls or one request.     *)
(* The file of an upload arrives as bytes and is decoded as UTF-8 with an  *)
(* optional byte order mark (reprice.py line 36); the cells here are ASCII, *)
(* which decodes to itself.                                                *)

InitCsv ==
    /\ csv_text \in CsvFiles
    /\ parsed = None
    /\ emitted = None
    /\ reparsed = None
    /\ download = None
    /\ upload = None
    /\ price_call = None
    /\ price_result = None
    /\ alert_call = None
    /\ alert_result = None
    /\ db = None
    /\ today = None
    /\ batch = None
    /\ checked = None

CallParseCsv ==
    /\ IsNone(parsed)
    /\ IsNone(download)
    /\ IsNone(upload)
    /\ parsed' = parse_csv(csv_text)
    /\ UNCHANGED <<csv_text, emitted, reparsed, download, upload, price_vars, alert_vars, store_vars>>

\* generate_csv takes any list of row records: the parsed rows as they are,
\* or with fields taken out or put in by the caller, row by row.
CallGenerateCsv ==
    /\ parsed.t = "return"
    /\ IsNone(emitted)
    /\ \E shapes \in [1..Len(parsed.value) -> RowShapes] :
           LET rows == [i \in 1..Len(parsed.value) |->
                           Reshaped(parsed.value[i], shapes[i])]
           IN  emitted' = [t |-> "return", rows |-> rows,
                           value |-> generate_csv(rows)]
    /\ UNCHANGED <<csv_text, parsed, reparsed, download, upload, price_vars, alert_vars, store_vars>>

CallParseEmitted ==
    /\ emitted.t = "return"
    /\ IsNone(reparsed)
    /\ reparsed' = parse_csv(emitted.value)
    /\ UNCHANGED <<csv_text, parsed, emitted, download, upload, price_vars, alert_vars, store_vars>>

RepriceUpload ==
    /\ IsNone(upload)
    /\ IsNone(download)
    /\ IsNone(parsed)
    /\ \E strategy \in StrategyForms, undercut_pct \in UndercutForms,
          floor_price \in FloorForms :
           upload' = [t |-> "response",
                      strategy |-> strategy,
                      undercut_pct |-> undercut_pct,
                      floor_price |-> floor_price,
                      outcome |-> reprice_upload(csv_text, strategy,
                                                 undercut_pct, floor_price)]
    /\ UNCHANGED <<csv_text, parsed, emitted, reparsed, download, price_vars, alert_vars, store_vars>>

RepriceDownload ==
    /\ IsNone(download)
    /\ IsNone(upload)
    /\ IsNone(parsed)
    /\ \E strategy \in StrategyForms, undercut_pct \in UndercutForms,
          floor_price \in FloorForms :
           download' = [t |-> "response",
                        strategy |-> strategy,
                        undercut_pct |-> undercut_pct,
                        floor_price |-> floor_price,
                        outcome |-> reprice_download(csv_text, strategy,
                                                     undercut_pct, floor_price)]
    /\ UNCHANGED <<csv_text, parsed, emitted, reparsed, upload, price_vars, alert_vars, store_vars>>

NextCsv ==
    \/ CallParseCsv
    \/ CallGenerateCsv
    \/ CallParseEmitted
    \/ RepriceUpload
    \/ RepriceDownload

SpecCsv == InitCsv /\ [][NextCsv]_vars

-----------------------------------------------------------------------------
(* The alert rule: the arguments are drawn at the start, the call acts once *)

MaxAlertCents == 3

\* 0.00, 5.00, 8.00, 10.00, 10.50 and 12.00 are the prices of
\* tests/test_alerts.py; 10.0, 10, 0 and -0 are other triples of two of
\* these values, and -5.00 is a price below zero.  11.50 and 11.49 are the
\* changes of 15% and of just under 15% from 10.00.
AlertPrices ==
    {Dec(0, c, -2) : c \in (0..MaxAlertCents)
                         \cup {500, 800, 1000, 1050, 1149, 1150, 1200}}
        \cup {Dec(0, 100, -1), Dec(0, 10, 0), Dec(0, 0, 0), Dec(1, 0, 0),
              Dec(1, 500, -2)}

\* 5, 10 and 15 are the thresholds of tests/test_alerts.py; 20 is the change
\* from 10.00 to 12.00 and to 8.00.
AlertThresholds ==
    {Dec(0, 0, 0), Dec(0, 5, 0), Dec(0, 10, 0), Dec(0, 15, 0), Dec(0, 20, 0),
     Dec(0, 25, -1)}

AlertDirections == {"up", "down", "both", "sideways"}

\* seen holds what the calls made so far for the same prices and threshold
\* returned, by direction.
AlertCalls ==
    [t : {"call"}, old_price : AlertPrices, new_price : AlertPrices,
     threshold_pct : AlertThresholds, direction : AlertDirections,
     seen : {<<>>}]

InitAlert ==
    /\ alert_call \in AlertCalls
    /\ alert_result = None
    /\ price_call = None
    /\ price_result = None
    /\ csv_text = None
    /\ parsed = None
    /\ emitted = None
    /\ reparsed = None
    /\ download = None
    /\ upload = None
    /\ db = None
    /\ today = None
    /\ batch = None
    /\ checked = None

CallEvaluateAlert ==
    /\ IsNone(alert_result)
    /\ alert_result' = evaluate_alert(alert_call.old_price, alert_call.new_price,
                            alert_call.threshold_pct, alert_call.direction)
    /\ UNCHANGED <<alert_call, price_vars, csv_vars, store_vars>>

\* The same prices and threshold are evaluated again under a direction not
\* tried yet; evaluate_alert keeps no state between calls.
CallOtherDirection ==
    /\ alert_result.t = "return"
    /\ \E direction \in AlertDirections
                          \ (DOMAIN alert_call.seen \cup {alert_call.direction}) :
           alert_call' = [alert_call EXCEPT
                            !.direction = direction,
                            !.seen = [d \in DOMAIN alert_call.seen
                                              \cup {alert_call.direction} |->
                                         IF d = alert_call.direction
                                         THEN alert_result.value
                                         ELSE alert_call.seen[d]]]
    /\ alert_result' = None
    /\ UNCHANGED <<price_vars, csv_vars, store_vars>>

NextAlert ==
    \/ CallEvaluateAlert
    \/ CallOtherDirection

SpecAlert == InitAlert /\ [][NextAlert]_vars

-----------------------------------------------------------------------------
(* The store.  Requests and runs happen one at a time; each is one step.   *)

MaxDay == 3

MaxCards == 2

MaxItems == 2

MaxAlerts == 2

\* A variant of a card of the JustTCG API; price and minPrice7d are None or
\* the text str() gives for the number.
Variant(sku, printing, price) ==
    [tcgplayerSkuId |-> sku, printing |-> printing, price |-> price,
     minPrice7d |-> price]

CardOf(id, variants) == [tcgplayerId |-> id, variants |-> variants]

\* Market prices as the API gives them: none, 0, 10.0 and 12.
RawPrices == {None, Str(<<"0">>), Str(<<"1", "0", ".", "0">>), Str(<<"1", "2">>)}

\* Product 1 with its Normal printing at each price.
PricedCards ==
    {CardOf(Str(<<"1">>), <<Variant(Str(<<"7">>), "Normal", p)>>) : p \in RawPrices}

\* Product 1 with two variants of one printing (two conditions of it).
TwinCard ==
    CardOf(Str(<<"1">>),
           <<Variant(Str(<<"7">>), "Normal", Str(<<"1", "0", ".", "0">>)),
             Variant(Str(<<"9">>), "Normal", Str(<<"1", "2">>))>>)

\* Product 1 with a Normal and a Foil printing, as MOCK_CARD of
\* tests/test_ingestion.py.
FoilCard ==
    CardOf(Str(<<"1">>),
           <<Variant(Str(<<"7">>), "Normal", Str(<<"1", "0", ".", "0">>)),
             Variant(Str(<<"8">>), "Foil", Str(<<"1", "2">>))>>)

\* Product 2 with a sku id that is no number: int() raises in parse_skus,
\* after the product row is flushed.
BadSkuCard ==
    CardOf(Str(<<"2">>), <<Variant(Str(<<"x">>), "Foil", Str(<<"1", "2">>))>>)

\* A card without tcgplayerId, as test_parse_product_missing_tcgplayer_id.
NoIdCard == CardOf(None, <<>>)

\* The cards of the watched store, each ingested on its own: product 1 at
\* the prices 0, 10.0 and 12.
WatchedCards ==
    {CardOf(Str(<<"1">>), <<Variant(Str(<<"7">>), "Normal", p)>>) :
         p \in RawPrices \ {None}}

\* The cards of the nightly batches: some fail.
AllCards ==
    {CardOf(Str(<<"1">>), <<Variant(Str(<<"7">>), "Normal", p)>>) :
         p \in {None, Str(<<"1", "2">>)}}
        \cup {TwinCard, FoilCard, BadSkuCard, NoIdCard}

RECURSIVE BatchesUpTo(_, _)
BatchesUpTo(cards, n) ==
    IF n = 0 THEN {<<>>}
    ELSE BatchesUpTo(cards, n - 1)
             \cup {Append(b, c) : b \in {x \in BatchesUpTo(cards, n - 1) : Len(x) = n - 1},
                                  c \in cards}

\* The pairs a watchlist request names.
WatchPairs == {<<1, "Normal">>, <<1, "Foil">>}

\* The form fields of configure_alert.
ThresholdForms == {<<"1", "0">>}

DirectionForms == {"up", "down", "both"}

InitStore ==
    /\ db = EmptyTables
    /\ today = 1
    /\ batch = None
    /\ checked = [returned |-> <<>>, earlier |-> {}]
    /\ price_call = None
    /\ price_result = None
    /\ csv_text = None
    /\ parsed = None
    /\ emitted = None
    /\ reparsed = None
    /\ download = None
    /\ upload = None
    /\ alert_call = None
    /\ alert_result = None

\* One ingest_batch call on a session that starts from the committed
\* tables; what the session holds uncommitted at its end is dropped.
Ingested(cards, done) ==
    /\ db' = done.session.committed
    /\ batch' = [cards |-> cards,
                 date |-> today,
                 success_count |-> done.success_count,
                 error_count |-> done.error_count]

IngestBatchOf(batches) ==
    /\ \E cards \in batches :
           Ingested(cards, ingest_batch([committed |-> db, working |-> db],
                                        cards, today))
    /\ UNCHANGED <<today, checked, price_vars, csv_vars, alert_vars>>

Batches == BatchesUpTo(AllCards, MaxCards) \ {<<>>}

IngestBatch == IngestBatchOf(Batches)

IngestWatchedCard == IngestBatchOf({<<c>> : c \in WatchedCards})

NextDay ==
    /\ today < MaxDay
    /\ today' = today + 1
    /\ UNCHANGED <<db, batch, checked, price_vars, csv_vars, alert_vars>>

CheckAlerts ==
    /\ LET run == check_alerts(db, today)
       IN  /\ db' = run.tables
           /\ checked' = [returned |-> [k \in 1..Len(run.triggered) |->
                                            run.triggered[k].alert_id],
                          earlier |-> checked.earlier
                              \cup {checked.returned[k] :
                                        k \in 1..Len(checked.returned)}]
    /\ UNCHANGED <<today, batch, price_vars, csv_vars, alert_vars>>

AddToWatchlist ==
    /\ Len(db.watchlist) < MaxItems
    /\ \E pair \in WatchPairs : db' = add_to_watchlist(db, pair[1], pair[2])
    /\ UNCHANGED <<today, batch, checked, price_vars, csv_vars, alert_vars>>

RemoveFromWatchlist ==
    /\ \E item_id \in 1..MaxItems : db' = remove_from_watchlist(db, item_id)
    /\ UNCHANGED <<today, batch, checked, price_vars, csv_vars, alert_vars>>

ConfigureAlert ==
    /\ Len(db.price_alerts) < MaxAlerts
    /\ \E item_id \in 1..Len(db.watchlist), threshold_pct \in ThresholdForms,
          direction \in DirectionForms :
           db' = configure_alert(db, item_id, threshold_pct, direction)
    /\ UNCHANGED <<today, batch, checked, price_vars, csv_vars, alert_vars>>

AcknowledgeAlert ==
    /\ \E alert_id \in 1..MaxAlerts : db' = acknowledge_alert(db, alert_id)
    /\ UNCHANGED <<today, batch, checked, price_vars, csv_vars, alert_vars>>

\* Ingestion alone, with cards that fail.
NextIngest ==
    \/ IngestBatch
    \/ NextDay

SpecIngest == InitStore /\ [][NextIngest]_vars

\* The watchlist, its alerts and the nightly run.
NextWatch ==
    \/ IngestWatchedCard
    \/ NextDay
    \/ CheckAlerts
    \/ AddToWatchlist
    \/ RemoveFromWatchlist
    \/ ConfigureAlert
    \/ AcknowledgeAlert

SpecWatch == InitStore /\ [][NextWatch]_vars

-----------------------------------------------------------------------------
(* Arithmetic of the claims, on plain integers.  Prices are counted in     *)
(* thousandths of a currency unit and percentages in tenths of a percent:  *)
(* both are exact for every input of PriceCalls.                           *)

Max(a, b) == IF a >= b THEN a ELSE b

Thousandths(a) == (IF a.s = 1 THEN -a.c ELSE a.c) * 10^(a.e + 3)

PctTenths(p) == IF IsNone(p) THEN 0 ELSE (IF p.s = 1 THEN -p.c ELSE p.c) * 10^(p.e + 1)

\* n / d rounded to the nearest integer, a half rounding away from zero.
HalfUpDiv(n, d) ==
    IF n >= 0 THEN (2 * n + d) \div (2 * d) ELSE -((2 * (-n) + d) \div (2 * d))

\* tcg_low * (1 - undercut_pct/100) in cents, rounded half-up once:
\* the product is Thousandths * (1000 - PctTenths) / 10^6 currency units.
UndercutCents(call) ==
    HalfUpDiv(Thousandths(call.tcg_low) * (1000 - PctTenths(call.undercut_pct)),
              10000)

\* The candidate of section 4.2 in thousandths, for the three strategies.
CandidateThousandths(call) ==
    IF call.strategy = MATCH_LOW THEN Thousandths(call.tcg_low)
    ELSE IF call.strategy = MATCH_MARKET THEN Thousandths(call.market_price)
    ELSE 10 * UndercutCents(call)

Returned == price_result.t = "return"

NoFloor == IsNone(price_call.floor_price)

-----------------------------------------------------------------------------
(* Claims about calculate_price, checked under SpecPrice *)

\* C1: for every strategy, every non-negative tcg_low and market_price, every
\* undercut_pct and every floor_price, the value calculate_price returns is
\* never negative and never below 0.01.
C1_NeverBelowPenny ==
    (Returned /\ price_call.strategy \in RepricingStrategy)
        => /\ price_result.value.s = 0
           /\ Thousandths(price_result.value) >= 10

\* The case of test_minimum_price_never_below_penny, and a negative product.
C1_Witness ==
    /\ Returned
    /\ price_call.strategy = UNDERCUT
    /\ price_call.undercut_pct = Dec(0, 150, 0)
    /\ price_call.tcg_low = Dec(0, 1250, -2)
    /\ price_call.floor_price = Dec(1, 100, -2)
    /\ price_result.value = Dec(0, 1, -2)

\* C4: a call with a strategy value outside MATCH_LOW, UNDERCUT, MATCH_MARKET
\* fails with an InvalidStrategy error and returns no price.
C4_InvalidStrategyRaises ==
    (~IsNone(price_result) /\ price_call.strategy \notin RepricingStrategy)
        => /\ price_result.t = "raise"
           /\ price_result.error = "InvalidStrategy"

\* C7: UNDERCUT with no floor returns
\* max(0.01, round_half_up_2(tcg_low * (1 - undercut_pct/100))).
C7_UndercutRoundedOnce ==
    (Returned /\ price_call.strategy = UNDERCUT /\ NoFloor)
        => price_result.value = Dec(0, Max(1, UndercutCents(price_call)), -2)

\* 12.50 at 5% is 11.875 and comes out as 11.88.
C7_Witness ==
    /\ Returned
    /\ price_call.strategy = UNDERCUT
    /\ NoFloor
    /\ price_call.tcg_low = Dec(0, 1250, -2)
    /\ price_call.undercut_pct = Dec(0, 5, 0)
    /\ price_result.value = Dec(0, 1188, -2)

\* C8: for every strategy the result is
\* round_half_up_2(max(max(candidate, floor_price if present), 0.01)).
C8_FloorMinimumRound ==
    (Returned /\ price_call.strategy \in RepricingStrategy)
        => LET cand == CandidateThousandths(price_call)
               floored == IF NoFloor THEN cand
                          ELSE Max(cand, Thousandths(price_call.floor_price))
           IN  price_result.value = Dec(0, HalfUpDiv(Max(floored, 10), 10), -2)

\* A floor below 0.01 (here -1.00) with a candidate below 0.01 gives 0.01.
C8_Witness ==
    /\ Returned
    /\ price_call.strategy = MATCH_LOW
    /\ price_call.floor_price = Dec(1, 100, -2)
    /\ price_call.tcg_low = Dec(0, 4, -3)
    /\ price_result.value = Dec(0, 1, -2)

\* C9 as stated: with a floor_price present the result is never below it.
C9_NeverBelowFloor ==
    (Returned /\ ~NoFloor)
        => Thousandths(price_result.value) >= Thousandths(price_call.floor_price)

\* C9 as amended: with a floor_price present the result is never below
\* floor_price rounded half-up to two places, hence never below floor_price
\* itself when floor_price has at most two fractional digits.
C9_NeverBelowRoundedFloor ==
    (Returned /\ ~NoFloor)
        => /\ Thousandths(price_result.value)
                >= 10 * HalfUpDiv(Thousandths(price_call.floor_price), 10)
           /\ price_call.floor_price.e >= -2
                => Thousandths(price_result.value)
                       >= Thousandths(price_call.floor_price)

\* The floor 1.00 of test_floor_price_enforced lifting a 0.50 candidate.
C9_Witness ==
    /\ Returned
    /\ price_call.strategy = MATCH_LOW
    /\ price_call.tcg_low = Dec(0, 50, -2)
    /\ price_call.floor_price = Dec(0, 100, -2)
    /\ price_result.value = Dec(0, 100, -2)

\* A source price of at least 0.01 with two fractional digits.
TwoDigitPrice(a) == a.e = -2 /\ a.s = 0 /\ a.c >= 1

\* C10: with no floor and a two-digit source price of at least 0.01,
\* MATCH_LOW returns exactly tcg_low and MATCH_MARKET exactly market_price.
C10_Passthrough ==
    /\ (Returned /\ NoFloor /\ price_call.strategy = MATCH_LOW
            /\ TwoDigitPrice(price_call.tcg_low))
        => price_result.value = price_call.tcg_low
    /\ (Returned /\ NoFloor /\ price_call.strategy = MATCH_MARKET
            /\ TwoDigitPrice(price_call.market_price))
        => price_result.value = price_call.market_price

\* test_match_tcglow: 12.50 comes back although market_price is 14.00.
C10_Witness ==
    /\ Returned
    /\ NoFloor
    /\ price_call.strategy = MATCH_LOW
    /\ price_call.tcg_low = Dec(0, 1250, -2)
    /\ price_call.market_price = Dec(0, 1400, -2)
    /\ price_call.undercut_pct = Dec(0, 50, 0)
    /\ price_result.value = Dec(0, 1250, -2)

\* C11: UNDERCUT with undercut_pct absent or zero returns what MATCH_LOW
\* returns for the same tcg_low and floor_price, present or absent:
\* round_half_up_2(max(max(tcg_low, floor_price if present), 0.01)).
C11_ZeroUndercutIsMatchLow ==
    (Returned /\ price_call.strategy = UNDERCUT
        /\ PctTenths(price_call.undercut_pct) = 0)
        => LET low == Thousandths(price_call.tcg_low)
               floored == IF NoFloor THEN low
                          ELSE Max(low, Thousandths(price_call.floor_price))
           IN  price_result.value = Dec(0, HalfUpDiv(Max(floored, 10), 10), -2)

\* tcg_low 0.075 is rounded to 0.08 before the clamp against a floor of
\* 0.005 and again after it; MATCH_LOW rounds 0.075 once, to the same 0.08.
C11_Witness ==
    /\ Returned
    /\ price_call.strategy = UNDERCUT
    /\ IsNone(price_call.undercut_pct)
    /\ price_call.tcg_low = Dec(0, 75, -3)
    /\ price_call.floor_price = Dec(0, 5, -3)
    /\ price_result.value = Dec(0, 8, -2)

\* C12: every returned price has exactly two fractional digits, and a
\* returned price fed back as the source price of MATCH_LOW or MATCH_MARKET
\* with no floor comes back as the same value.
C12_TwoDigitsIdempotent ==
    Returned
        => /\ price_result.value.e = -2
           /\ price_call.t = "feedback"
                => price_result.value = (IF price_call.strategy = MATCH_LOW
                                         THEN price_call.tcg_low
                                         ELSE price_call.market_price)

\* 11.88, the result of 12.50 undercut by 5%, comes back from MATCH_MARKET.
C12_Witness ==
    /\ Returned
    /\ price_call.t = "feedback"
    /\ price_call.strategy = MATCH_MARKET
    /\ price_call.tcg_low = Dec(0, 1250, -2)
    /\ price_call.undercut_pct = Dec(0, 5, 0)
    /\ price_call.market_price = Dec(0, 1188, -2)
    /\ price_result.value = Dec(0, 1188, -2)

-----------------------------------------------------------------------------
(* Claims about parse_csv, generate_csv and the pipeline, under SpecCsv *)

\* Python's == on None, str and Decimal values: Decimals compare by value.
PyEq(a, b) ==
    IF a.t # b.t THEN FALSE
    ELSE IF a.t = "dec" THEN DecEq(a, b)
    ELSE a = b

ColumnIndex(csv_col) == CHOOSE i \in 1..Len(Headers) : Headers[i] = csv_col

CurrencyColumns ==
    {ColumnIndex(CSV_COLUMN_MAP[i][1]) :
        i \in {k \in 1..Len(CSV_COLUMN_MAP) : CSV_COLUMN_MAP[k][2] \in PRICE_FIELDS}}

\* A data line with non-numeric text in a currency cell.
HasNonNumericCell(line) ==
    \E i \in CurrencyColumns : i <= Len(line) /\ line[i] \in NonNumericCells

\* The data lines DictReader turns into rows.
DataLines == SelectSeq(csv_text.lines, LAMBDA line : line # <<>>)

\* The rows an outcome of parse_csv hands to the caller.
RowsAvailable(outcome) ==
    IF "value" \in DOMAIN outcome THEN outcome.value ELSE <<>>

\* C2: in the repricing pipeline the 'TCG Marketplace Price' cell of every
\* emitted row carries that row's computed new price, not the input's price.
C2_EmittedCarriesNewPrice ==
    (download.t = "response" /\ download.outcome.t = "return")
        => \A i \in 1..Len(download.outcome.rows) :
               download.outcome.body.lines[i][ColumnIndex("TCG Marketplace Price")]
                   = DecimalStr(download.outcome.rows[i].new_price)

\* C3: parse_csv(generate_csv(parse_csv(x))) equals parse_csv(x) field for
\* field, for each of the 16 mapped fields of every row.
C3_RoundTrip ==
    (parsed.t = "return" /\ ~IsNone(reparsed) /\ emitted.rows = parsed.value)
        => /\ reparsed.t = "return"
           /\ Len(reparsed.value) = Len(parsed.value)
           /\ \A i \in 1..Len(parsed.value) : \A f \in FieldNames :
                  PyEq(reparsed.value[i][f], parsed.value[i][f])

C6_EarlierRowsAvailable ==
    ~IsNone(parsed)
        => \A k \in 1..Len(DataLines) :
               (HasNonNumericCell(DataLines[k])
                    /\ \A j \in 1..(k - 1) : ~HasNonNumericCell(DataLines[j]))
                 => /\ Len(RowsAvailable(parsed)) >= k - 1
                    /\ \A j \in 1..(k - 1) :
                           RowsAvailable(parsed)[j]
                               = MappedRow(DictRow(csv_text.header, DataLines[j]))

\* The emitted text of a present currency value in two-digit form: digits,
\* a point, two digits, with at most a minus sign in front.
PlainTwoDigits(cell) ==
    LET body == IF cell # <<>> /\ cell[1] = "-" THEN Tail(cell) ELSE cell
        n == Len(body)
    IN  /\ n >= 4
        /\ body[n - 2] = "."
        /\ \A k \in (1..n) \ {n - 2} : IsDigit(body[k])

FieldOfColumn(c) == CSV_COLUMN_MAP[c][2]

\* C13: generate_csv writes every present currency value that parse_csv
\* produced as plain decimal text with two fractional digits: no exponent,
\* no currency symbol, no thousands separator.
C13_PlainTwoDigitText ==
    (emitted.t = "return" /\ emitted.rows = parsed.value)
        => \A i \in 1..Len(emitted.rows) : \A c \in CurrencyColumns :
               IsDec(emitted.rows[i][FieldOfColumn(c)])
                   => PlainTwoDigits(emitted.value.lines[i][c])

\* The numeric cells of InputLines and the decimal each denotes.
NumericCells ==
    { [cell |-> P_14_00, value |-> Dec(0, 1400, -2)],
      [cell |-> P_12_75, value |-> Dec(0, 1275, -2)],
      [cell |-> P_12_50, value |-> Dec(0, 1250, -2)],
      [cell |-> P_15_00, value |-> Dec(0, 1500, -2)],
      [cell |-> <<"0", ".", "0", "0", "5">>, value |-> Dec(0, 5, -3)],
      [cell |-> <<"1", "2", ".", "5">>, value |-> Dec(0, 125, -1)],
      [cell |-> <<"1", "2">>, value |-> Dec(0, 12, 0)],
      [cell |-> <<"0">>, value |-> Dec(0, 0, 0)],
      [cell |-> <<"0", ".", "0", "0">>, value |-> Dec(0, 0, -2)],
      [cell |-> <<" ", "1", "4", ".", "0", "0", " ">>, value |-> Dec(0, 1400, -2)],
      [cell |-> <<"0", ".", "0", "0", "0", "0", "0", "0", "1">>, value |-> Dec(0, 1, -7)] }

\* C14: in each of the five currency columns an empty cell becomes None,
\* never zero, and a numeric cell becomes the decimal it denotes; what a
\* field becomes depends on its own cell only.
C14_EmptyIsAbsent ==
    parsed.t = "return"
        => \A i \in 1..Len(DataLines) : \A c \in CurrencyColumns :
               c <= Len(DataLines[i])
                   => LET cell == DataLines[i][c]
                          got == parsed.value[i][FieldOfColumn(c)]
                      IN  /\ cell = <<>> => IsNone(got)
                          /\ \A n \in NumericCells : n.cell = cell => got = n.value
                          /\ IsDec(got) => \E n \in NumericCells : n.cell = cell

\* The row of test_parse_tcgplayer_csv, with direct_low alone absent, before
\* a row whose tcg_low cell is "0.00": a zero that is present.
C14_Witness ==
    /\ parsed.t = "return"
    /\ Len(DataLines) = 2
    /\ DataLines[1] = TestLine
    /\ IsNone(parsed.value[1].direct_low)
    /\ parsed.value[1].market_price = Dec(0, 1400, -2)
    /\ parsed.value[1].tcg_low_with_shipping = Dec(0, 1275, -2)
    /\ parsed.value[1].tcg_low = Dec(0, 1250, -2)
    /\ parsed.value[1].current_listed_price = Dec(0, 1500, -2)
    /\ Len(DataLines[2]) = 16
    /\ DataLines[2][ColumnIndex("TCG Low Price")] = <<"0", ".", "0", "0">>
    /\ parsed.value[2].tcg_low = Dec(0, 0, -2)
    /\ IsNone(parsed.value[2].direct_low)

\* C15: generate_csv writes the empty string for every absent currency
\* value, be it None or a field the row record does not have.
C15_AbsentIsEmptyText ==
    emitted.t = "return"
        => \A i \in 1..Len(emitted.rows) : \A c \in CurrencyColumns :
               (FieldOfColumn(c) \notin DOMAIN emitted.rows[i]
                    \/ IsNone(emitted.rows[i][FieldOfColumn(c)]))
                 => emitted.value.lines[i][c] = <<>>

\* A row without a direct_low field before a row whose direct_low is None.
C15_Witness ==
    /\ emitted.t = "return"
    /\ Len(emitted.rows) = 2
    /\ "direct_low" \notin DOMAIN emitted.rows[1]
    /\ "direct_low" \in DOMAIN emitted.rows[2]
    /\ IsNone(emitted.rows[2].direct_low)
    /\ emitted.value.lines[1][ColumnIndex("TCG Direct Low")] = <<>>
    /\ emitted.value.lines[2][ColumnIndex("TCG Direct Low")] = <<>>

\* The header row of the TCGPlayer export.
DialectHeader ==
    <<"TCGplayer Id", "Product Line", "Set Name", "Product Name", "Title",
      "Number", "Rarity", "Condition", "TCG Market Price", "TCG Direct Low",
      "TCG Low Price With Shipping", "TCG Low Price", "Total Quantity",
      "Add to Quantity", "TCG Marketplace Price", "Photo URL">>

\* text has the 16 columns in the fixed order and one line of 16 cells per
\* row, the i-th line made of the i-th row: a text field is in its column
\* as it is, and a currency cell is filled exactly when the row has a value.
SameDialect(rows, text) ==
    /\ text.header = DialectHeader
    /\ Len(text.lines) = Len(rows)
    /\ \A i \in 1..Len(rows) :
           /\ Len(text.lines[i]) = 16
           /\ \A c \in 1..16 :
                  LET f == FieldOfColumn(c)
                      has == f \in DOMAIN rows[i]
                  IN  IF c \in CurrencyColumns
                      THEN (text.lines[i][c] # <<>>) <=> (has /\ IsDec(rows[i][f]))
                      ELSE text.lines[i][c]
                               = (IF has /\ rows[i][f].t = "str" THEN rows[i][f].v
                                  ELSE <<>>)

\* C16: whatever fields each row carries, new_price and diff included,
\* generate_csv writes the same header of 16 columns in the order of
\* CSV_COLUMN_MAP and one line per row in the order of the rows.
C16_FixedHeaderAndOrder ==
    /\ emitted.t = "return" => SameDialect(emitted.rows, emitted.value)
    /\ (download.t = "response" /\ download.outcome.t = "return")
            => SameDialect(download.outcome.rows, download.outcome.body)

\* A row of text fields plus new_price and diff, before a row two cells long.
C16_Witness ==
    /\ emitted.t = "return"
    /\ Len(emitted.rows) = 2
    /\ DataLines[1] = TestLine
    /\ DataLines[2] = SubSeq(TestLine, 1, 2)
    /\ "new_price" \in DOMAIN emitted.rows[1]
    /\ "diff" \in DOMAIN emitted.rows[1]
    /\ "market_price" \notin DOMAIN emitted.rows[1]
    /\ "new_price" \notin DOMAIN emitted.rows[2]
    /\ emitted.value.lines[1][ColumnIndex("Set Name")] = <<"S", "S">>
    /\ emitted.value.lines[2][ColumnIndex("Set Name")] = <<>>

\* Absent, or present with the value zero.
AbsentOrZero(x) == IsNone(x) \/ Thousandths(x) = 0

\* What calculate_price makes of a row under the form fields of a request,
\* with an absent tcg_low or market_price counted as 0.00.
ExpectedNewPrice(row, request) ==
    LET low == IF IsNone(row.tcg_low) THEN 0 ELSE Thousandths(row.tcg_low)
        market == IF IsNone(row.market_price) THEN 0
                  ELSE Thousandths(row.market_price)
        pct == PctTenths(FormDecimal(request.undercut_pct))
        floor == FormDecimal(request.floor_price)
        cand == IF request.strategy = "MATCH_LOW" THEN low
                ELSE IF request.strategy = "MATCH_MARKET" THEN market
                ELSE 10 * HalfUpDiv(low * (1000 - pct), 10000)
        floored == IF IsNone(floor) THEN cand ELSE Max(cand, Thousandths(floor))
    IN  Dec(0, HalfUpDiv(Max(floored, 10), 10), -2)

\* rows are the rows of a request after the loop, each with its new_price.
BatchApplied(rows, request) ==
    \A i \in 1..Len(rows) :
        IF AbsentOrZero(rows[i].tcg_low) /\ AbsentOrZero(rows[i].market_price)
        THEN PyEq(rows[i].new_price, rows[i].current_listed_price)
        ELSE rows[i].new_price = ExpectedNewPrice(rows[i], request)

\* C17: in both handlers, a row whose tcg_low and market_price are both
\* absent or zero gets its own current_listed_price as new_price, with no
\* clamp applied; any other row gets what calculate_price returns with an
\* absent tcg_low or market_price counted as 0.00.
C17_BatchApplication ==
    /\ (upload.t = "response" /\ upload.outcome.t = "return")
            => BatchApplied(upload.outcome.results, upload)
    /\ (download.t = "response" /\ download.outcome.t = "return")
            => BatchApplied(download.outcome.rows, download)

\* C18: diff is new_price minus current_listed_price whenever the row has
\* a current_listed_price, 0.00 included, and is 0.00 when it has none.
C18_DiffFromCurrent ==
    (upload.t = "response" /\ upload.outcome.t = "return")
        => \A i \in 1..Len(upload.outcome.results) :
               LET r == upload.outcome.results[i]
               IN  IF IsNone(r.current_listed_price)
                   THEN Thousandths(r.diff) = 0
                   ELSE Thousandths(r.diff)
                            = Thousandths(r.new_price)
                                  - Thousandths(r.current_listed_price)

-----------------------------------------------------------------------------
(* Claims about evaluate_alert, checked under SpecAlert *)

\* A price of AlertPrices in hundredths of a currency unit.
Hundredths(a) == (IF a.s = 1 THEN -a.c ELSE a.c) * 10^(a.e + 2)

\* C19: evaluate_alert returns false whenever old_price equals new_price,
\* for every threshold_pct, 0 included, and every direction, also when both
\* prices are 0.
C19_EqualPricesNeverTrigger ==
    (~IsNone(alert_result)
        /\ Hundredths(alert_call.old_price) = Hundredths(alert_call.new_price))
        => /\ alert_result.t = "return"
           /\ alert_result.value = FALSE

\* test_no_alert_on_same_price with the threshold at 0 and the same value
\* written as 10.00 and as 10.0.
C19_Witness ==
    /\ alert_call.old_price = Dec(0, 1000, -2)
    /\ alert_call.new_price = Dec(0, 100, -1)
    /\ alert_call.threshold_pct = Dec(0, 0, 0)
    /\ alert_call.direction = "both"
    /\ alert_result.t = "return"
    /\ alert_result.value = FALSE

\* C20: with old_price 0 and another new_price evaluate_alert returns true
\* for the directions up and both and false for any other, whatever
\* threshold_pct is; and no call ends in a division by zero.
C20_ZeroBaseline ==
    ~IsNone(alert_result)
        => /\ alert_result.t = "return"
           /\ (Hundredths(alert_call.old_price) = 0
                    /\ Hundredths(alert_call.new_price) # 0)
                => alert_result.value = (alert_call.direction \in {"up", "both"})

\* test_zero_old_price_does_not_divide_by_zero.
C20_Witness ==
    /\ alert_call.old_price = Dec(0, 0, -2)
    /\ alert_call.new_price = Dec(0, 500, -2)
    /\ alert_call.threshold_pct = Dec(0, 10, 0)
    /\ alert_call.direction = "up"
    /\ alert_result.t = "return"
    /\ alert_result.value = TRUE

\* A threshold of AlertThresholds in tenths of a percent.
ThresholdTenths(a) == (IF a.s = 1 THEN -a.c ELSE a.c) * 10^(a.e + 1)

\* The trigger rule on integers: with o and n the prices in hundredths and
\* o > 0, pct_change >= x tenths of a percent iff 1000 * (n - o) >= x * o.
ExpectedTrigger(call) ==
    LET o == Hundredths(call.old_price)
        n == Hundredths(call.new_price)
        x == ThresholdTenths(call.threshold_pct)
    IN  IF call.direction = "up" THEN 1000 * (n - o) >= x * o
        ELSE IF call.direction = "down" THEN 1000 * (n - o) <= (-x) * o
        ELSE 1000 * Abs(n - o) >= x * o

\* C21: for old_price > 0 and another new_price, up triggers iff the
\* unrounded pct_change >= threshold_pct, down iff pct_change <=
\* -threshold_pct, both iff |pct_change| >= threshold_pct; the comparison is
\* inclusive.
C21_ThresholdComparison ==
    (~IsNone(alert_result)
        /\ alert_call.direction \in {"up", "down", "both"}
        /\ Hundredths(alert_call.old_price) > 0
        /\ Hundredths(alert_call.new_price) # Hundredths(alert_call.old_price))
        => /\ alert_result.t = "return"
           /\ alert_result.value = ExpectedTrigger(alert_call)

\* 10.00 to 11.50 is exactly 15% and triggers up at threshold 15.
C21_Witness ==
    /\ alert_call.old_price = Dec(0, 1000, -2)
    /\ alert_call.new_price = Dec(0, 1150, -2)
    /\ alert_call.threshold_pct = Dec(0, 15, 0)
    /\ alert_call.direction = "up"
    /\ alert_result.t = "return"
    /\ alert_result.value = TRUE

\* C22 as stated: a direction other than up and down returns what both
\* returns for the same prices and threshold, old_price = 0 included.
C22_OtherDirectionLikeBoth ==
    (alert_result.t = "return"
        /\ alert_call.direction \notin {"up", "down", "both"}
        /\ "both" \in DOMAIN alert_call.seen)
        => alert_result.value = alert_call.seen["both"]

\* C22 as amended: a direction other than up and down returns what both
\* returns whenever old_price is not 0 or new_price equals old_price; with
\* old_price = 0 and another new_price it returns false and both true.
C22_OtherDirectionLikeBothOffZero ==
    (alert_result.t = "return"
        /\ alert_call.direction \notin {"up", "down", "both"}
        /\ "both" \in DOMAIN alert_call.seen)
        => IF Hundredths(alert_call.old_price) = 0
                /\ Hundredths(alert_call.new_price) # 0
           THEN alert_result.value = FALSE /\ alert_call.seen["both"] = TRUE
           ELSE alert_result.value = alert_call.seen["both"]

\* The drop from 10.00 to 8.00 at threshold 15 triggers under both and
\* under a direction that is no direction.
C22_Witness ==
    /\ alert_call.old_price = Dec(0, 1000, -2)
    /\ alert_call.new_price = Dec(0, 800, -2)
    /\ alert_call.threshold_pct = Dec(0, 15, 0)
    /\ alert_call.direction = "sideways"
    /\ "both" \in DOMAIN alert_call.seen
    /\ alert_call.seen["both"] = TRUE
    /\ alert_result.t = "return"
    /\ alert_result.value = TRUE

\* C30: for prices and thresholds that are not negative, both returns true
\* exactly when up or down does, and up and down never both return true.
C30_BothIsUpOrDown ==
    (alert_result.t = "return"
        /\ alert_call.direction = "both"
        /\ {"up", "down"} \subseteq DOMAIN alert_call.seen
        /\ Hundredths(alert_call.old_price) >= 0
        /\ Hundredths(alert_call.new_price) >= 0
        /\ ThresholdTenths(alert_call.threshold_pct) >= 0)
        => /\ alert_result.value
                = (alert_call.seen["up"] \/ alert_call.seen["down"])
           /\ ~(alert_call.seen["up"] /\ alert_call.seen["down"])

\* test_both_direction_triggers_on_drop: down and both trigger, up does not.
C30_Witness ==
    /\ alert_call.old_price = Dec(0, 1000, -2)
    /\ alert_call.new_price = Dec(0, 800, -2)
    /\ alert_call.threshold_pct = Dec(0, 15, 0)
    /\ alert_call.direction = "both"
    /\ {"up", "down"} \subseteq DOMAIN alert_call.seen
    /\ alert_call.seen["up"] = FALSE
    /\ alert_call.seen["down"] = TRUE
    /\ alert_result.t = "return"
    /\ alert_result.value = TRUE

-----------------------------------------------------------------------------
(* Claims of the store *)

AlertIds == 1..Len(db.price_alerts)

ReturnedIds(c) == {c.returned[k] : k \in 1..Len(c.returned)}

IsTriggered(tables, a) == ~IsNone(tables.price_alerts[a].triggered_at)

\* C23: an alert is triggered at most once.  What check_alerts returns names
\* no alert twice and no alert an earlier run returned, every alert it
\* returned has its triggered_at set, and no step (a run of check_alerts, an
\* ingest, an acknowledgement, a watchlist request) changes a triggered_at
\* that is set.
C23_TriggeredAtMostOnce ==
    /\ [](/\ ReturnedIds(checked) \cap checked.earlier = {}
          /\ Cardinality(ReturnedIds(checked)) = Len(checked.returned)
          /\ \A a \in ReturnedIds(checked) \cup checked.earlier :
                 a \in AlertIds /\ IsTriggered(db, a))
    /\ [][\A a \in AlertIds :
             IsTriggered(db, a)
                 => /\ a \in 1..Len(db'.price_alerts)
                    /\ db'.price_alerts[a].triggered_at
                           = db.price_alerts[a].triggered_at]_vars

\* An alert triggered on an earlier day and acknowledged, on an item that is
\* still active, whose rule fires again on the prices of today, after a later
\* run that returned nothing.
C23_Witness ==
    /\ Len(db.price_alerts) >= 1
    /\ IsTriggered(db, 1)
    /\ db.price_alerts[1].triggered_at.day < today
    /\ db.price_alerts[1].acknowledged
    /\ db.watchlist[db.price_alerts[1].watchlist_id].active
    /\ Fires(db, 1)
    /\ 1 \in checked.earlier
    /\ checked.returned = <<>>

\* The alerts a run of check_alerts over the tables triggers.
RunTriggers(tables, now) ==
    LET run == check_alerts(tables, now)
    IN  {a \in 1..Len(tables.price_alerts) :
            /\ \E k \in 1..Len(run.triggered) : run.triggered[k].alert_id = a
            /\ IsTriggered(run.tables, a)}

IsActive(tables, a) == tables.watchlist[tables.price_alerts[a].watchlist_id].active

\* The evaluation rule on the current and the prior stored observation of the
\* pair of an alert, where both are stored with a market price.
RuleOnStored(tables, a) ==
    LET item == tables.watchlist[tables.price_alerts[a].watchlist_id]
        current == CurrentOf(tables, item.product_id, item.variant)
        history == PriorOf(tables, item.product_id, item.variant)
    IN  /\ current # 0
        /\ history # 0
        /\ ~IsNone(tables.current_prices[current].market_price)
        /\ ~IsNone(tables.price_history[history].market_price)
        /\ evaluate_alert(tables.price_history[history].market_price,
                          tables.current_prices[current].market_price,
                          tables.price_alerts[a].threshold_pct,
                          tables.price_alerts[a].direction).value

\* C24: a run of check_alerts triggers exactly the active, not yet triggered
\* alerts for which the evaluation rule holds on the current and the prior
\* stored observation, the prior market price 0 with a positive current one
\* and direction up or both included.
C24_RuleOnEveryStoredPair ==
    \A a \in AlertIds :
        IsActive(db, a) /\ ~IsTriggered(db, a)
            => (RuleOnStored(db, a) <=> a \in RunTriggers(db, today))

\* The history rows of a pair, as positions.
RowsOf(tables, product_id, variant) ==
    {i \in 1..Len(tables.price_history) :
        /\ tables.price_history[i].product_id = product_id
        /\ tables.price_history[i].variant = variant}

\* The rows of the greatest date among the positions.
Newest(tables, rows) ==
    {i \in rows : \A j \in rows :
        tables.price_history[j].date <= tables.price_history[i].date}

\* C25: the rows check_alerts reads.  For every pair with a current price the
\* history has one row of the latest date and it carries the market price of
\* the current price; for every alert that check_alerts evaluates new_price is
\* that price and old_price the market price of the one row of the greatest
\* date before the latest; with fewer than two history rows of the pair the
\* alert is not evaluated and not triggered.
C25_CurrentAndPrecedingObservation ==
    /\ \A c \in 1..Len(db.current_prices) :
           LET rows == RowsOf(db, db.current_prices[c].product_id,
                              db.current_prices[c].variant)
           IN  /\ Cardinality(Newest(db, rows)) = 1
               /\ \A i \in Newest(db, rows) :
                      db.price_history[i].market_price
                          = db.current_prices[c].market_price
    /\ \A a \in AlertIds :
           LET item == db.watchlist[db.price_alerts[a].watchlist_id]
               rows == RowsOf(db, item.product_id, item.variant)
               before == rows \ Newest(db, rows)
           IN  /\ Evaluated(db, a)
                   => /\ Cardinality(Newest(db, before)) = 1
                      /\ \A i \in Newest(db, rows), j \in Newest(db, before) :
                             /\ TriggeredEntry(db, a).new_price
                                    = db.price_history[i].market_price
                             /\ TriggeredEntry(db, a).old_price
                                    = db.price_history[j].market_price
               /\ Cardinality(rows) < 2
                   => ~Evaluated(db, a) /\ a \notin RunTriggers(db, today)

\* An alert for rising prices triggered by the run of day 3, after ingests of
\* 12 on day 1, 10.00 on day 2 and 12 on day 3: from the price of day 1 the
\* price of day 3 is no rise.
C25_Witness ==
    /\ today = 3
    /\ Len(db.price_alerts) >= 1
    /\ db.price_alerts[1].direction = "up"
    /\ IsTriggered(db, 1)
    /\ db.price_alerts[1].triggered_at.day = 3
    /\ checked.returned = <<1>>
    /\ Len(db.price_history) = 3
    /\ \A i \in 1..3 : db.price_history[i].date = i
    /\ DecEq(db.price_history[1].market_price, Dec(0, 12, 0))
    /\ DecEq(db.price_history[2].market_price, Dec(0, 10, 0))
    /\ DecEq(db.price_history[3].market_price, Dec(0, 12, 0))

\* Whether ingest_card stores the card: it has an id and int() takes its ids.
Stored(card) ==
    /\ ~Falsy(card.tcgplayerId)
    /\ ~IntRefuses(card.tcgplayerId)
    /\ ~SkuRaises(card)

\* The price_data of the stored cards of a batch, in the order of ingestion.
RECURSIVE PricesOfBatch(_)
PricesOfBatch(cards) ==
    IF cards = <<>> THEN <<>>
    ELSE (IF Stored(Head(cards)) THEN parse_current_prices(Head(cards)) ELSE <<>>)
             \o PricesOfBatch(Tail(cards))

SameKey(r, q) == r.product_id = q.product_id /\ r.variant = q.variant

\* C26: the price history holds at most one row per (product_id, variant,
\* date) and the current prices at most one row per (product_id, variant);
\* after a batch the one history row of its date and the one current row of
\* every pair it stored carry the market and the low price the batch stored
\* last for the pair.
C26_OneRowPerKey ==
    /\ \A i, j \in 1..Len(db.price_history) :
           /\ SameKey(db.price_history[i], db.price_history[j])
           /\ db.price_history[i].date = db.price_history[j].date
           => i = j
    /\ \A i, j \in 1..Len(db.current_prices) :
           SameKey(db.current_prices[i], db.current_prices[j]) => i = j
    /\ batch # None
           => LET prices == PricesOfBatch(batch.cards)
              IN  \A k \in 1..Len(prices) :
                      (\A l \in (k + 1)..Len(prices) : ~SameKey(prices[l], prices[k]))
                          => /\ \E i \in 1..Len(db.price_history) :
                                    /\ SameKey(db.price_history[i], prices[k])
                                    /\ db.price_history[i].date = batch.date
                                    /\ db.price_history[i].market_price = prices[k].market_price
                                    /\ db.price_history[i].low_price = prices[k].low_price
                             /\ \E i \in 1..Len(db.current_prices) :
                                    db.current_prices[i] = prices[k]

\* On day 2 a batch of the card with a Normal and a Foil printing and then
\* the card with two Normal variants, both pairs having a row of day 1: the
\* Normal row of day 2 was written three times and holds 12.00.
C26_Witness ==
    /\ today = 2
    /\ batch # None
    /\ batch.date = 2
    /\ batch.cards = <<FoilCard, TwinCard>>
    /\ Cardinality(RowsOf(db, 1, "Normal")) = 2
    /\ Cardinality(RowsOf(db, 1, "Foil")) = 2
    /\ \E i \in RowsOf(db, 1, "Normal") :
           /\ db.price_history[i].date = 2
           /\ db.price_history[i].market_price = Dec(0, 1200, -2)

\* The committed tables after the cards of a batch, each card ingested in a
\* session of its own: a card that raises or has no id leaves them as they
\* were.
RECURSIVE OneByOne(_, _, _)
OneByOne(tables, cards, date) ==
    IF cards = <<>> THEN tables
    ELSE OneByOne(ingest_card([committed |-> tables, working |-> tables],
                              Head(cards), date).session.committed,
                  Tail(cards), date)

\* C28: ingest_batch counts every card once, as a success when ingest_card
\* stores it and as an error otherwise (it raises, or the card has no id);
\* the store after the batch is the store the cards give one by one, so a
\* card that raises leaves no row, the cards before it keep their rows and
\* the cards after it are stored; the product of the card that raises is
\* never in the store.
C28_BatchCountsAndRollback ==
    /\ [](batch # None
            => /\ batch.success_count + batch.error_count = Len(batch.cards)
               /\ batch.success_count
                      = Cardinality({k \in 1..Len(batch.cards) : Stored(batch.cards[k])}))
    /\ [](2 \notin db.products)
    /\ [][batch' # batch => db' = OneByOne(db, batch'.cards, batch'.date)]_vars

\* A batch of the card that raises after its product row is flushed and then
\* a card that is stored: one error, one success, the rows of product 1.
C28_Witness ==
    /\ batch # None
    /\ batch.cards = <<BadSkuCard, TwinCard>>
    /\ batch.success_count = 1
    /\ batch.error_count = 1
    /\ db.products = {1}
    /\ db.skus = {7, 9}
    /\ Len(db.current_prices) = 1

\* C27: an alert of an inactive watchlist item is not triggered, not returned
\* by check_alerts and not changed by it (only acknowledge_alert changes
\* such an alert, in its acknowledged flag), and an inactive item is never
\* active again: adding its pair again adds an item.
C27_InactiveItemsUntouched ==
    /\ [](\A a \in AlertIds : ~IsActive(db, a) => a \notin RunTriggers(db, today))
    /\ [][/\ \A a \in AlertIds :
                ~IsActive(db, a)
                    => /\ [db'.price_alerts[a] EXCEPT !.acknowledged = FALSE]
                              = [db.price_alerts[a] EXCEPT !.acknowledged = FALSE]
                       /\ checked' # checked => a \notin ReturnedIds(checked')
          /\ \A i \in 1..Len(db.watchlist) :
                ~db.watchlist[i].active
                    => /\ db'.watchlist[i] = db.watchlist[i]
                       /\ \A pair \in WatchPairs :
                              ~add_to_watchlist(db, pair[1], pair[2]).watchlist[i].active]_vars

\* The pair of a removed item was added again and each item has an alert for
\* rising prices: the run of today triggered the alert of the new item and
\* left the alert of the removed item, which has the same rule, untriggered.
C27_Witness ==
    /\ Len(db.watchlist) = 2
    /\ Len(db.price_alerts) = 2
    /\ ~db.watchlist[1].active
    /\ db.watchlist[2].active
    /\ db.watchlist[1].variant = db.watchlist[2].variant
    /\ \E a, b \in AlertIds :
           /\ db.price_alerts[a].watchlist_id = 1
           /\ db.price_alerts[b].watchlist_id = 2
           /\ db.price_alerts[a].direction = db.price_alerts[b].direction
           /\ ~IsTriggered(db, a)
           /\ Fires(db, a)
           /\ IsTriggered(db, b)
           /\ db.price_alerts[b].triggered_at.day = today
           /\ checked.returned = <<b>>

\* C29: at most one active watchlist item per (product_id, variant); adding a
\* pair that has an active item leaves the store as it is; no step removes a
\* watchlist row or an alert or changes the pair of a row, and a step that
\* clears the active flag of an item changes nothing else.
C29_OneActiveItemPerPair ==
    /\ [](/\ \A i, j \in 1..Len(db.watchlist) :
                /\ db.watchlist[i].active
                /\ db.watchlist[j].active
                /\ db.watchlist[i].product_id = db.watchlist[j].product_id
                /\ db.watchlist[i].variant = db.watchlist[j].variant
                => i = j
          /\ \A i \in 1..Len(db.watchlist) :
                db.watchlist[i].active
                    => add_to_watchlist(db, db.watchlist[i].product_id,
                                        db.watchlist[i].variant) = db)
    /\ [][/\ Len(db'.watchlist) >= Len(db.watchlist)
          /\ Len(db'.price_alerts) >= Len(db.price_alerts)
          /\ \A a \in AlertIds :
                db'.price_alerts[a].watchlist_id = db.price_alerts[a].watchlist_id
          /\ \A i \in 1..Len(db.watchlist) :
                /\ db'.watchlist[i].product_id = db.watchlist[i].product_id
                /\ db'.watchlist[i].variant = db.watchlist[i].variant
                /\ db.watchlist[i].active /\ ~db'.watchlist[i].active
                       => db' = [db EXCEPT !.watchlist[i].active = FALSE]]_vars

\* A pair was added, given an alert, removed and added again while another
\* pair is not watched: the removed row and its alert are kept and the pair
\* has one active item.
C29_Witness ==
    /\ Len(db.watchlist) = 2
    /\ db.watchlist[1] = [product_id |-> 1, variant |-> "Foil", active |-> FALSE]
    /\ db.watchlist[2] = [product_id |-> 1, variant |-> "Foil", active |-> TRUE]
    /\ Len(db.price_alerts) = 1
    /\ db.price_alerts[1].watchlist_id = 1

=============================================================================
